---- MODULE Spec2Model ----
(***************************************************************************)
(* A model of the tms-engine simulation loop (internal/engine), the        *)
(* SimService state machine (internal/service), the constant-acceleration  *)
(* motion model (internal/kinematics) and the graph's shortest paths       *)
(* (internal/graph).                                                       *)
(*                                                                         *)
(* Numbers.  The program computes in float64.  Here a velocity or a        *)
(* distance x is the integer x * Scale (a fixed-point number with          *)
(* resolution 1/Scale); times (time step, run time, departure delay,       *)
(* dwell) and accelerations are whole numbers.  With Scale = 4 and         *)
(* accelerations in {0, 1, 2} every quotient the motion model forms from   *)
(* whole-number velocities is exact; only the square root of               *)
(* VelocityAfterBraking rounds (down, to the grid), after which quotients  *)
(* round down too.  +Inf is the number PosInf, larger than every finite    *)
(* value of the model, and the float operations that can meet it (FAdd,    *)
(* FSub) treat it as IEEE arithmetic does.  The one sum the program        *)
(* accumulates over a whole run, curTime += TimeStep, is rounded as a      *)
(* float64 sum is, to the nearest value with Precision significant binary  *)
(* digits, ties to even: whole numbers below 2^Precision add exactly.      *)
(***************************************************************************)
EXTENDS Integers, Sequences, FiniteSets, TLC

VARIABLES
    input,      \* the SimulationInput handed to NewTMS
    pc,         \* "new" | "run" | "done" | "error"
    graph,      \* TMS.graph
    services,   \* TMS.services, in input order
    curTime,    \* TMS.curTime
    nrows,      \* len(log.Output), counted up to MaxRows
    lastStamp,  \* Timestamp of the last row appended
    minMAs,     \* the braking-distance map of the last step (pass 1)
    moves,      \* per service, what the motion pass of the last step did
    result,     \* what Run / NewTMS returned: nothing yet, the log or an error
    kin,        \* a call of the motion model: its receiver, arguments and result
    gcall       \* a call on a Graph of its own: its arguments and result

vars == <<input, pc, graph, services, curTime, nrows, lastStamp, minMAs, moves, result,
          kin, gcall>>

----------------------------------------------------------------------------
(* Bounds of the model *)

MaxRunTime == 20
MaxRows == 24
Precision == 5

(* float64 *)
Scale == 4
PosInf == 1000000
MaxFloat64 == 999999

Max(a, b) == IF a >= b THEN a ELSE b
Min(a, b) == IF a <= b THEN a ELSE b

IsInf(x) == x >= PosInf

\* x + y in float64: +Inf absorbs
FAdd(x, y) == IF IsInf(x) \/ IsInf(y) THEN PosInf ELSE x + y

\* x - y in float64 for finite x: subtracting +Inf gives -Inf
FSub(x, y) == IF IsInf(y) THEN 0 - PosInf ELSE x - y

\* the number of binary digits of the natural number x
BitLen(x) == CHOOSE n \in 0..(2 * Precision + 2) : 2^n > x /\ (n = 0 \/ 2^(n - 1) <= x)

\* x rounded to the nearest multiple of q, a tie going to the even multiple
RoundTo(x, q) ==
    IF 2 * (x % q) < q THEN x - (x % q)
    ELSE IF 2 * (x % q) > q THEN x - (x % q) + q
    ELSE IF (x \div q) % 2 = 0 THEN x - (x % q)
    ELSE x - (x % q) + q

\* the float64 nearest to x >= 0, for a float64 of Precision significant
\* binary digits: the values below 2^Precision are exact
RoundToEven(x) == IF x < 2^Precision THEN x ELSE RoundTo(x, 2^(BitLen(x) - Precision))

\* math.Sqrt on the fixed-point grid: the largest r with r*r <= n
Sqrt(n) == CHOOSE r \in 0..n : r * r <= n /\ (r + 1) * (r + 1) > n

----------------------------------------------------------------------------
(* internal/kinematics: ConstantAcceleration.  c = [AAcc, ADcc, VMaxVal]   *)

VMax(c) == c.VMaxVal

BrakingDistance(c, v) ==
    IF c.ADcc <= 0 THEN PosInf
    ELSE (v * v) \div (2 * c.ADcc * Scale)

BrakingDistanceTo(c, v, targetV) ==
    IF c.ADcc <= 0 THEN PosInf
    ELSE IF v <= targetV THEN 0
    ELSE (v * v - targetV * targetV) \div (2 * c.ADcc * Scale)

VelocityAfterBraking(c, v0, dist) ==
    IF c.ADcc <= 0 THEN v0
    ELSE Sqrt(Max(0, v0 * v0 - 2 * c.ADcc * dist * Scale))

\* tToTarget := (targetV - v) / AAcc is the fraction (targetV - v) / (AAcc * Scale)
\* seconds; s1 = v*t + 0.5*a*t*t = (targetV^2 - v^2) / (2a); s2 = targetV * (dt - t).
AccelerateStep(c, v, targetV, dt) ==
    IF c.AAcc <= 0 \/ v >= targetV THEN [dist |-> targetV * dt, newV |-> targetV]
    ELSE IF targetV - v <= c.AAcc * Scale * dt
         THEN LET s1 == (targetV * targetV - v * v) \div (2 * c.AAcc * Scale)
                  s2 == targetV * dt - (targetV * (targetV - v)) \div (c.AAcc * Scale)
              IN  [dist |-> s1 + s2, newV |-> targetV]
         ELSE [dist |-> v * dt + (c.AAcc * Scale * dt * dt) \div 2,
               newV |-> v + c.AAcc * Scale * dt]

\* s1 = v*t - 0.5*a*t*t = (v^2 - targetV^2) / (2a) with t = (v - targetV) / ADcc
DecelerateStep(c, v, targetV, dt) ==
    IF c.ADcc <= 0 \/ v <= targetV THEN [dist |-> targetV * dt, newV |-> targetV]
    ELSE IF v - targetV <= c.ADcc * Scale * dt
         THEN LET s1 == (v * v - targetV * targetV) \div (2 * c.ADcc * Scale)
                  s2 == targetV * dt - (targetV * (v - targetV)) \div (c.ADcc * Scale)
              IN  [dist |-> Max(0, s1) + s2, newV |-> targetV]
         ELSE [dist |-> Max(0, v * dt - (c.ADcc * Scale * dt * dt) \div 2),
               newV |-> v - c.ADcc * Scale * dt]

----------------------------------------------------------------------------
(* internal/graph.  A graph is [nodes, edges, dist, nextNode]; nodes is a   *)
(* sequence of node ids, edges a sequence of                               *)
(* [ID, U, V, Length, SpeedLimit], SpeedLimit being <<>> (nil) or <<l>>.   *)
(* The three indexes (nodeMap, edgeMap, edgeByNodes) are read off the two  *)
(* sequences; edgeByNodes[u][v] is the last edge added from u to v.        *)

NoNode == ""

NodeSet(g) == {g.nodes[i] : i \in 1..Len(g.nodes)}

EmptyGraph == [nodes |-> <<>>, edges |-> <<>>, tables |-> FALSE,
               dist |-> <<>>, nextNode |-> <<>>, pathCache |-> {}]

HasNode(g, id) == \E i \in 1..Len(g.nodes) : g.nodes[i] = id
HasEdgeID(g, id) == \E i \in 1..Len(g.edges) : g.edges[i].ID = id

AddNode(g, n) ==
    IF HasNode(g, n) THEN [ok |-> FALSE, g |-> g]
    ELSE [ok |-> TRUE,
          g |-> [g EXCEPT !.nodes = Append(g.nodes, n), !.tables = FALSE]]

\* AddEdge without the check of the target node
AddEdgeAnyTarget(g, e) ==
    IF HasEdgeID(g, e.ID) \/ ~HasNode(g, e.U)
    THEN [ok |-> FALSE, g |-> g]
    ELSE [ok |-> TRUE,
          g |-> [g EXCEPT !.edges = Append(g.edges, e), !.tables = FALSE]]

AddEdge(g, e) ==
    IF HasEdgeID(g, e.ID) \/ ~HasNode(g, e.U) \/ ~HasNode(g, e.V)
    THEN [ok |-> FALSE, g |-> g]
    ELSE [ok |-> TRUE,
          g |-> [g EXCEPT !.edges = Append(g.edges, e), !.tables = FALSE]]

RECURSIVE AddNodes(_, _, _)
AddNodes(g, ns, i) ==
    IF i > Len(ns) THEN [ok |-> TRUE, g |-> g]
    ELSE LET r == AddNode(g, ns[i])
         IN  IF r.ok THEN AddNodes(r.g, ns, i + 1) ELSE r

RECURSIVE AddEdges(_, _, _)
AddEdges(g, es, i) ==
    IF i > Len(es) THEN [ok |-> TRUE, g |-> g]
    ELSE LET r == AddEdge(g, es[i])
         IN  IF r.ok THEN AddEdges(r.g, es, i + 1) ELSE r

NewGraph(data) ==
    LET rn == AddNodes(EmptyGraph, data.Nodes, 1)
    IN  IF rn.ok THEN AddEdges(rn.g, data.Edges, 1) ELSE rn

GetEdgeByID(g, id) ==
    IF HasEdgeID(g, id)
    THEN [ok |-> TRUE, edge |-> g.edges[CHOOSE i \in 1..Len(g.edges) : g.edges[i].ID = id]]
    ELSE [ok |-> FALSE, edge |-> <<>>]

\* edgeByNodes[u][v]: a later AddEdge from u to v overwrites an earlier one
GetEdge(g, u, v) ==
    LET idx == {i \in 1..Len(g.edges) : g.edges[i].U = u /\ g.edges[i].V = v}
    IN  IF idx = {} THEN [ok |-> FALSE, edge |-> <<>>]
        ELSE [ok |-> TRUE, edge |-> g.edges[CHOOSE i \in idx : \A j \in idx : j <= i]]

\* the two tables before the triple loop
RECURSIVE SeedEdges(_, _, _)
SeedEdges(tb, es, i) ==
    IF i > Len(es) THEN tb
    ELSE LET e == es[i]
         IN  SeedEdges([dist |-> [tb.dist EXCEPT ![e.U][e.V] = e.Length],
                        nextNode |-> [tb.nextNode EXCEPT ![e.U][e.V] = e.V]],
                       es, i + 1)

\* the triple loop, k outermost, over the nodes in insertion order; n counts
\* the iterations
RECURSIVE Relax(_, _, _)
Relax(tb, ns, n) ==
    LET N == Len(ns) IN
    IF n >= N * N * N THEN tb
    ELSE LET k == ns[(n \div (N * N)) + 1]
             i == ns[((n \div N) % N) + 1]
             j == ns[(n % N) + 1]
             d == FAdd(tb.dist[i][k], tb.dist[k][j])
         IN  IF d < tb.dist[i][j]
             THEN Relax([dist |-> [tb.dist EXCEPT ![i][j] = d],
                         nextNode |-> [tb.nextNode EXCEPT ![i][j] = tb.nextNode[i][k]]],
                        ns, n + 1)
             ELSE Relax(tb, ns, n + 1)

computeShortestPaths(g) ==
    LET S == NodeSet(g)
        seed == [dist |-> [i \in S |-> [j \in S |-> IF i = j THEN 0 ELSE PosInf]],
                 nextNode |-> [i \in S |-> [j \in S |-> NoNode]]]
        tb == Relax(SeedEdges(seed, g.edges, 1), g.nodes, 0)
    IN  [g EXCEPT !.tables = TRUE, !.dist = tb.dist, !.nextNode = tb.nextNode,
                  !.pathCache = {}]

ensureShortestPaths(g) == IF g.tables THEN g ELSE computeShortestPaths(g)

RECURSIVE reconstructPath(_, _, _)
reconstructPath(g, u, v) ==
    IF u = v THEN <<u>>
    ELSE LET n == g.nextNode[u][v]
         IN  IF n = NoNode THEN <<>>
             ELSE LET rest == reconstructPath(g, n, v)
                  IN  IF rest = <<>> THEN <<>> ELSE <<u>> \o rest

\* g has its tables (ensureShortestPaths ran in NewTMS and the graph does not
\* change during a run, so the memoized PathInfo is the computed one; the
\* method with its cache is GetShortestPathCached)
GetShortestPath(g, start, end) ==
    IF start = end THEN [ok |-> TRUE, Route |-> <<start>>, Length |-> 0]
    ELSE IF ~HasNode(g, start) \/ ~HasNode(g, end) \/ IsInf(g.dist[start][end])
         THEN [ok |-> FALSE, Route |-> <<>>, Length |-> 0]
         ELSE [ok |-> TRUE, Route |-> reconstructPath(g, start, end),
               Length |-> g.dist[start][end]]

\* pathKey and PathInfo
pathKey(start, end) == <<start, end>>
PathInfo(start, end, route, len) ==
    [ID |-> pathKey(start, end), Route |-> route, Length |-> len]
NoPath == [ID |-> <<>>, Route |-> <<>>, Length |-> 0]

\* GetShortestPath after ensureShortestPaths, on a miss of the cache
lookupPath(g, start, end) ==
    IF ~HasNode(g, start) \/ ~HasNode(g, end) \/ IsInf(g.dist[start][end])
    THEN [ok |-> FALSE, path |-> NoPath, g |-> g, hit |-> FALSE]
    ELSE [ok |-> TRUE,
          path |-> PathInfo(start, end, reconstructPath(g, start, end),
                            g.dist[start][end]),
          g |-> [g EXCEPT !.pathCache =
                     @ \cup {PathInfo(start, end, reconstructPath(g, start, end),
                                      g.dist[start][end])}],
          hit |-> FALSE]

\* Graph.GetShortestPath with its cache, on a graph that may have changed
\* since the tables were computed: the answer, the graph after the call and
\* whether the answer came from the cache
GetShortestPathCached(g, start, end) ==
    IF start = end
    THEN [ok |-> TRUE, path |-> PathInfo(start, end, <<start>>, 0), g |-> g,
          hit |-> FALSE]
    ELSE IF \E p \in g.pathCache : p.ID = pathKey(start, end)
    THEN [ok |-> TRUE,
          path |-> CHOOSE p \in g.pathCache : p.ID = pathKey(start, end),
          g |-> g, hit |-> TRUE]
    ELSE lookupPath(ensureShortestPaths(g), start, end)

GetNextEdge(g, u, dest) ==
    LET path == GetShortestPath(g, u, dest)
    IN  IF ~path.ok \/ Len(path.Route) < 2 THEN [ok |-> FALSE, edge |-> <<>>]
        ELSE GetEdge(g, path.Route[1], path.Route[2])

GetPathStartPosition(g, u, v) ==
    LET path == GetShortestPath(g, u, v)
    IN  IF ~path.ok \/ Len(path.Route) < 2 THEN [ok |-> FALSE, pos |-> <<>>]
        ELSE LET e == GetEdge(g, path.Route[1], path.Route[2])
             IN  IF ~e.ok THEN [ok |-> FALSE, pos |-> <<>>]
                 ELSE [ok |-> TRUE,
                       pos |-> [Edge |-> e.edge.ID, DistanceAlongEdge |-> 0]]

----------------------------------------------------------------------------
(* internal/service.  A SimService is the static Service                   *)
(* [ServiceID, InitialPosition, Route, Vehicle, DepartureDelay] with the   *)
(* live fields CurrentPosition, State, Velocity, RemainingDwell, NextStop  *)
(* and nextStopIndex (0-based, as in the program; Route is 1-based here).  *)

StateStationary == "stationary"
StateDwelling == "dwelling"
StateAccelerating == "accelerating"
StateDecelerating == "decelerating"
StateCruising == "cruising"

\* GetFirstStop without the case of a route that starts at the initial node
GetFirstStopFirstEntry(svc) ==
    IF Len(svc.Route) = 0 THEN [ok |-> FALSE, node |-> NoNode, idx |-> 0]
    ELSE [ok |-> TRUE, node |-> svc.Route[1].NodeID, idx |-> 0]

GetFirstStop(svc) ==
    IF Len(svc.Route) = 0 THEN [ok |-> FALSE, node |-> NoNode, idx |-> 0]
    ELSE IF svc.InitialPosition = svc.Route[1].NodeID
         THEN IF Len(svc.Route) < 2 THEN [ok |-> FALSE, node |-> NoNode, idx |-> 0]
              ELSE [ok |-> TRUE, node |-> svc.Route[2].NodeID, idx |-> 1]
         ELSE [ok |-> TRUE, node |-> svc.Route[1].NodeID, idx |-> 0]

NewSimService(svc, initialPos) ==
    LET fs == GetFirstStop(svc)
    IN  IF ~fs.ok THEN [ok |-> FALSE, svc |-> <<>>]
        ELSE [ok |-> TRUE,
              svc |-> [ServiceID |-> svc.ServiceID,
                       InitialPosition |-> svc.InitialPosition,
                       Route |-> svc.Route,
                       Vehicle |-> svc.Vehicle,
                       DepartureDelay |-> svc.DepartureDelay,
                       CurrentPosition |-> initialPos,
                       State |-> StateStationary,
                       Velocity |-> 0,
                       RemainingDwell |-> 0,
                       NextStop |-> fs.node,
                       nextStopIndex |-> fs.idx]]

SvcBrakingDistance(s) == BrakingDistance(s.Vehicle.Kinem, s.Velocity)

\* advanceNextStop stepping over a stop
advanceNextStopSkip(s) ==
    LET idx == (s.nextStopIndex + 2) % Len(s.Route)
    IN  [s EXCEPT !.nextStopIndex = idx, !.NextStop = s.Route[idx + 1].NodeID]

advanceNextStop(s) ==
    LET idx == (s.nextStopIndex + 1) % Len(s.Route)
    IN  [s EXCEPT !.nextStopIndex = idx, !.NextStop = s.Route[idx + 1].NodeID]

\* startDwell leaving the velocity as it is
startDwellMoving(s) ==
    advanceNextStop([s EXCEPT !.State = StateDwelling,
                              !.RemainingDwell = s.Route[s.nextStopIndex + 1].TDwell])

startDwell(s) ==
    advanceNextStop([s EXCEPT !.State = StateDwelling,
                              !.Velocity = 0,
                              !.RemainingDwell = s.Route[s.nextStopIndex + 1].TDwell])

\* endDwell advancing the next-stop pointer
endDwellAdvancing(s) ==
    advanceNextStop([s EXCEPT !.State = StateAccelerating, !.Velocity = 0,
                              !.RemainingDwell = 0])

endDwell(s) ==
    [s EXCEPT !.State = StateAccelerating, !.Velocity = 0, !.RemainingDwell = 0]

\* AdvanceDwell without the call of endDwell
AdvanceDwellNoEnd(s, dt) ==
    IF s.State /= StateDwelling THEN [startDwell(s) EXCEPT !.RemainingDwell = @ - dt]
    ELSE [s EXCEPT !.RemainingDwell = @ - dt]

AdvanceDwell(s, dt) ==
    LET s1 == IF s.State /= StateDwelling THEN startDwell(s) ELSE s
        s2 == [s1 EXCEPT !.RemainingDwell = RoundToEven(@ - dt)]
    IN  IF s2.RemainingDwell <= 0 THEN endDwell(s2) ELSE s2

ArriveAtStop(s) == startDwell(s)

----------------------------------------------------------------------------
(* internal/engine *)

distanceToNextStop(g, svc) ==
    LET e == GetEdgeByID(g, svc.CurrentPosition.Edge)
    IN  IF ~e.ok THEN [ok |-> FALSE, dist |-> 0]
        ELSE LET remainingOnEdge == e.edge.Length - svc.CurrentPosition.DistanceAlongEdge
             IN  IF e.edge.V = svc.NextStop THEN [ok |-> TRUE, dist |-> remainingOnEdge]
                 ELSE LET path == GetShortestPath(g, e.edge.V, svc.NextStop)
                      IN  IF ~path.ok THEN [ok |-> FALSE, dist |-> 0]
                          ELSE [ok |-> TRUE, dist |-> remainingOnEdge + path.Length]

\* getSpeedLimitInfo with the comparisons of the limits to VMax reversed
getSpeedLimitInfoReversed(g, svc) ==
    LET e == GetEdgeByID(g, svc.CurrentPosition.Edge)
    IN  IF ~e.ok THEN [ok |-> FALSE, currentMax |-> 0, distToChange |-> 0, nextMax |-> 0]
        ELSE LET vmax == VMax(svc.Vehicle.Kinem)
                 currentMax == IF e.edge.SpeedLimit /= <<>> /\ e.edge.SpeedLimit[1] > vmax
                               THEN e.edge.SpeedLimit[1] ELSE vmax
                 distToChange == e.edge.Length - svc.CurrentPosition.DistanceAlongEdge
                 ne == GetNextEdge(g, e.edge.V, svc.NextStop)
                 nextMax == IF ne.ok /\ ne.edge.SpeedLimit /= <<>>
                               /\ ne.edge.SpeedLimit[1] > vmax
                            THEN ne.edge.SpeedLimit[1] ELSE vmax
             IN  IF e.edge.V = svc.NextStop
                 THEN [ok |-> TRUE, currentMax |-> currentMax,
                       distToChange |-> distToChange, nextMax |-> 0]
                 ELSE [ok |-> TRUE, currentMax |-> currentMax,
                       distToChange |-> distToChange, nextMax |-> nextMax]

getSpeedLimitInfo(g, svc) ==
    LET e == GetEdgeByID(g, svc.CurrentPosition.Edge)
    IN  IF ~e.ok THEN [ok |-> FALSE, currentMax |-> 0, distToChange |-> 0, nextMax |-> 0]
        ELSE LET vmax == VMax(svc.Vehicle.Kinem)
                 currentMax == IF e.edge.SpeedLimit /= <<>> /\ e.edge.SpeedLimit[1] < vmax
                               THEN e.edge.SpeedLimit[1] ELSE vmax
                 distToChange == e.edge.Length - svc.CurrentPosition.DistanceAlongEdge
                 ne == GetNextEdge(g, e.edge.V, svc.NextStop)
                 nextMax == IF ne.ok /\ ne.edge.SpeedLimit /= <<>>
                               /\ ne.edge.SpeedLimit[1] < vmax
                            THEN ne.edge.SpeedLimit[1] ELSE vmax
             IN  IF e.edge.V = svc.NextStop
                 THEN [ok |-> TRUE, currentMax |-> currentMax,
                       distToChange |-> distToChange, nextMax |-> 0]
                 ELSE [ok |-> TRUE, currentMax |-> currentMax,
                       distToChange |-> distToChange, nextMax |-> nextMax]

\* the candidate's zone without the vehicle length
allowedByNoLength(svc, other, mas) ==
    IF other.ServiceID = svc.ServiceID THEN PosInf
    ELSE IF other.CurrentPosition.Edge /= svc.CurrentPosition.Edge THEN PosInf
    ELSE IF other.CurrentPosition.DistanceAlongEdge <= svc.CurrentPosition.DistanceAlongEdge
    THEN PosInf
    ELSE IF IsInf(mas[other.ServiceID]) THEN 0 - PosInf
    ELSE other.CurrentPosition.DistanceAlongEdge - mas[other.ServiceID]
             - svc.CurrentPosition.DistanceAlongEdge

\* the candidate's zone without the braking distance of pass 1
allowedByNoBraking(svc, other, mas) ==
    IF other.ServiceID = svc.ServiceID THEN PosInf
    ELSE IF other.CurrentPosition.Edge /= svc.CurrentPosition.Edge THEN PosInf
    ELSE IF other.CurrentPosition.DistanceAlongEdge <= svc.CurrentPosition.DistanceAlongEdge
    THEN PosInf
    ELSE other.CurrentPosition.DistanceAlongEdge - other.Vehicle.Length
             - svc.CurrentPosition.DistanceAlongEdge

\* one candidate of the loop of computeMaxAllowedDistance: the allowed distance
\* other imposes on svc, or PosInf when other is skipped
\* allowedBy taking a service level with svc for one ahead of it
allowedByLevel(svc, other, mas) ==
    IF other.ServiceID = svc.ServiceID THEN PosInf
    ELSE IF other.CurrentPosition.Edge /= svc.CurrentPosition.Edge THEN PosInf
    ELSE IF other.CurrentPosition.DistanceAlongEdge < svc.CurrentPosition.DistanceAlongEdge
    THEN PosInf
    ELSE IF IsInf(mas[other.ServiceID]) THEN 0 - PosInf
    ELSE other.CurrentPosition.DistanceAlongEdge - other.Vehicle.Length
             - mas[other.ServiceID] - svc.CurrentPosition.DistanceAlongEdge

allowedBy(svc, other, mas) ==
    IF other.ServiceID = svc.ServiceID THEN PosInf
    ELSE IF other.CurrentPosition.Edge /= svc.CurrentPosition.Edge THEN PosInf
    ELSE LET otherPos == other.CurrentPosition.DistanceAlongEdge
             myPos == svc.CurrentPosition.DistanceAlongEdge
         IN  IF otherPos <= myPos THEN PosInf
             ELSE LET safetyZoneStart ==
                          FSub(otherPos - other.Vehicle.Length, mas[other.ServiceID])
                  IN  IF safetyZoneStart <= 0 - PosInf THEN 0 - PosInf
                      ELSE safetyZoneStart - myPos

RECURSIVE minAllowed(_, _, _, _, _)
minAllowed(svcs, svc, mas, j, maxDist) ==
    IF j > Len(svcs) THEN maxDist
    ELSE LET allowed == allowedBy(svc, svcs[j], mas)
         IN  minAllowed(svcs, svc, mas, j + 1,
                        IF allowed < maxDist THEN allowed ELSE maxDist)

\* computeMaxAllowedDistance finding no candidate
computeMaxAllowedDistanceFree(svcs, svc, mas) == MaxFloat64

computeMaxAllowedDistance(svcs, svc, mas) ==
    LET maxDist == minAllowed(svcs, svc, mas, 1, PosInf)
    IN  IF IsInf(maxDist) THEN MaxFloat64 ELSE Max(0, maxDist)

\* advancePosition adding dist on the current edge whatever its length
advancePositionNoCrossing(g, svc, dist) ==
    IF ~(dist > 0) THEN [ok |-> TRUE, svc |-> svc, arrived |-> FALSE]
    ELSE [ok |-> TRUE,
          svc |-> [svc EXCEPT !.CurrentPosition.DistanceAlongEdge = @ + dist],
          arrived |-> FALSE]

RECURSIVE advancePosition(_, _, _)
advancePosition(g, svc, dist) ==
    IF ~(dist > 0) THEN [ok |-> TRUE, svc |-> svc, arrived |-> FALSE]
    ELSE LET e == GetEdgeByID(g, svc.CurrentPosition.Edge)
         IN  IF ~e.ok THEN [ok |-> FALSE, svc |-> svc, arrived |-> FALSE]
             ELSE LET remaining == e.edge.Length - svc.CurrentPosition.DistanceAlongEdge
                  IN  IF dist < remaining
                      THEN [ok |-> TRUE,
                            svc |-> [svc EXCEPT !.CurrentPosition.DistanceAlongEdge = @ + dist],
                            arrived |-> FALSE]
                      ELSE IF e.edge.V = svc.NextStop
                      THEN [ok |-> TRUE,
                            svc |-> [svc EXCEPT !.CurrentPosition.DistanceAlongEdge = e.edge.Length],
                            arrived |-> TRUE]
                      ELSE LET ne == GetNextEdge(g, e.edge.V, svc.NextStop)
                           IN  IF ~ne.ok THEN [ok |-> FALSE, svc |-> svc, arrived |-> FALSE]
                               ELSE advancePosition(g,
                                        [svc EXCEPT !.CurrentPosition =
                                            [Edge |-> ne.edge.ID, DistanceAlongEdge |-> 0]],
                                        dist - remaining)

Proposal(d, v, st) == [dist |-> d, newV |-> v, newState |-> st]

\* proposeMovement trying the lookahead rule before the stop rule
proposeMovementLookaheadFirst(svc, dt, distToStop, sl) ==
    LET v == svc.Velocity
        m == svc.Vehicle.Kinem
        effectiveVMax == sl.currentMax
        stop == DecelerateStep(m, v, 0, dt)
        look == DecelerateStep(m, v, sl.nextMax, dt)
        over == DecelerateStep(m, v, effectiveVMax, dt)
        acc == AccelerateStep(m, v, effectiveVMax, dt)
    IN  IF sl.nextMax > 0 /\ sl.nextMax < effectiveVMax /\ v > sl.nextMax
                /\ sl.distToChange <= BrakingDistanceTo(m, v, sl.nextMax)
        THEN IF look.newV <= sl.nextMax THEN Proposal(look.dist, look.newV, StateCruising)
             ELSE Proposal(look.dist, look.newV, StateDecelerating)
        ELSE IF distToStop <= BrakingDistance(m, v)
        THEN IF stop.newV <= 0 THEN Proposal(stop.dist, 0, StateDwelling)
             ELSE Proposal(stop.dist, stop.newV, StateDecelerating)
        ELSE IF v > effectiveVMax
        THEN IF over.newV <= effectiveVMax THEN Proposal(over.dist, over.newV, StateCruising)
             ELSE Proposal(over.dist, over.newV, StateDecelerating)
        ELSE IF svc.State = StateAccelerating
        THEN IF acc.newV >= effectiveVMax THEN Proposal(acc.dist, effectiveVMax, StateCruising)
             ELSE Proposal(acc.dist, acc.newV, StateAccelerating)
        ELSE IF svc.State = StateCruising
        THEN Proposal(effectiveVMax * dt, effectiveVMax, StateCruising)
        ELSE IF svc.State = StateDecelerating
        THEN IF stop.newV <= 0 THEN Proposal(stop.dist, 0, StateDwelling)
             ELSE Proposal(stop.dist, stop.newV, StateDecelerating)
        ELSE Proposal(0, v, svc.State)

proposeMovement(svc, dt, distToStop, sl) ==
    LET v == svc.Velocity
        m == svc.Vehicle.Kinem
        effectiveVMax == sl.currentMax
        stop == DecelerateStep(m, v, 0, dt)
        look == DecelerateStep(m, v, sl.nextMax, dt)
        over == DecelerateStep(m, v, effectiveVMax, dt)
        acc == AccelerateStep(m, v, effectiveVMax, dt)
    IN  IF distToStop <= BrakingDistance(m, v)
        THEN IF stop.newV <= 0 THEN Proposal(stop.dist, 0, StateDwelling)
             ELSE Proposal(stop.dist, stop.newV, StateDecelerating)
        ELSE IF sl.nextMax > 0 /\ sl.nextMax < effectiveVMax /\ v > sl.nextMax
                /\ sl.distToChange <= BrakingDistanceTo(m, v, sl.nextMax)
        THEN IF look.newV <= sl.nextMax THEN Proposal(look.dist, look.newV, StateCruising)
             ELSE Proposal(look.dist, look.newV, StateDecelerating)
        ELSE IF v > effectiveVMax
        THEN IF over.newV <= effectiveVMax THEN Proposal(over.dist, over.newV, StateCruising)
             ELSE Proposal(over.dist, over.newV, StateDecelerating)
        ELSE IF svc.State = StateAccelerating
        THEN IF acc.newV >= effectiveVMax THEN Proposal(acc.dist, effectiveVMax, StateCruising)
             ELSE Proposal(acc.dist, acc.newV, StateAccelerating)
        ELSE IF svc.State = StateCruising
        THEN Proposal(effectiveVMax * dt, effectiveVMax, StateCruising)
        ELSE IF svc.State = StateDecelerating
        THEN IF stop.newV <= 0 THEN Proposal(stop.dist, 0, StateDwelling)
             ELSE Proposal(stop.dist, stop.newV, StateDecelerating)
        ELSE Proposal(0, v, svc.State)

\* constrainedKinematics leaving a service trimmed to a standstill stationary
constrainedKinematicsStationary(svc, grantedDist) ==
    LET newV == VelocityAfterBraking(svc.Vehicle.Kinem, svc.Velocity, grantedDist)
    IN  IF newV <= 0 THEN [newV |-> 0, newState |-> StateStationary]
        ELSE [newV |-> newV, newState |-> StateDecelerating]

constrainedKinematics(svc, grantedDist) ==
    LET newV == VelocityAfterBraking(svc.Vehicle.Kinem, svc.Velocity, grantedDist)
    IN  IF newV <= 0 THEN [newV |-> 0, newState |-> StateDwelling]
        ELSE [newV |-> newV, newState |-> StateDecelerating]

\* pass 1 of step: the map from service id to BrakingDistance()
buildMinMAs(svcs) ==
    [id \in {svcs[i].ServiceID : i \in 1..Len(svcs)} |->
        LET last == CHOOSE i \in 1..Len(svcs) :
                        /\ svcs[i].ServiceID = id
                        /\ \A j \in 1..Len(svcs) : svcs[j].ServiceID = id => j <= i
        IN  SvcBrakingDistance(svcs[last])]

Positions(svcs) == [j \in 1..Len(svcs) |-> svcs[j].CurrentPosition]

\* what the motion pass records about one service
Move(kind, svcs, i, prop, maxAllowed, granted, arrived) ==
    [kind |-> kind, before |-> svcs[i], seen |-> Positions(svcs),
     proposal |-> prop, maxAllowed |-> maxAllowed, grantedDist |-> granted,
     arrived |-> arrived, dwellRows |-> 0, dwelt |-> 0]

NoProposal == Proposal(0, 0, "")

\* applyMove starting a dwell at the stop whenever the new state is dwelling
applyMoveDwellArrives(svcs, i, prop, maxAllowed, grantedDist, newVelocity, newState, adv) ==
    IF ~adv.ok
    THEN [ok |-> FALSE, svc |-> adv.svc,
          move |-> Move("error", svcs, i, prop, maxAllowed, grantedDist, FALSE)]
    ELSE [ok |-> TRUE,
          svc |-> IF adv.arrived \/ newState = StateDwelling THEN ArriveAtStop(adv.svc)
                  ELSE [adv.svc EXCEPT !.Velocity = newVelocity, !.State = newState],
          move |-> Move("move", svcs, i, prop, maxAllowed, grantedDist, adv.arrived)]

\* step, lines 126-131: arrival supersedes the velocity and state update
applyMove(svcs, i, prop, maxAllowed, grantedDist, newVelocity, newState, adv) ==
    IF ~adv.ok
    THEN [ok |-> FALSE, svc |-> adv.svc,
          move |-> Move("error", svcs, i, prop, maxAllowed, grantedDist, FALSE)]
    ELSE [ok |-> TRUE,
          svc |-> IF adv.arrived THEN ArriveAtStop(adv.svc)
                  ELSE [adv.svc EXCEPT !.Velocity = newVelocity, !.State = newState],
          move |-> Move("move", svcs, i, prop, maxAllowed, grantedDist, adv.arrived)]

\* step, lines 115-121: the MA trim recomputes velocity and state, then the
\* position advances
trimMove(g, svcs, i, prop, maxAllowed, grantedDist, ck) ==
    applyMove(svcs, i, prop, maxAllowed, grantedDist,
              IF grantedDist < prop.dist THEN ck.newV ELSE prop.newV,
              IF grantedDist < prop.dist THEN ck.newState ELSE prop.newState,
              advancePosition(g, svcs[i], grantedDist))

\* step, line 113
grantMove(g, svcs, i, prop, maxAllowed) ==
    trimMove(g, svcs, i, prop, maxAllowed, Min(prop.dist, maxAllowed),
             constrainedKinematics(svcs[i], Min(prop.dist, maxAllowed)))

\* step, lines 94-111: the proposal and the MA check of a service in motion
moveService(g, svcs, i, mas, dt, d, sl) ==
    IF ~d.ok \/ ~sl.ok
    THEN [ok |-> FALSE, svc |-> svcs[i],
          move |-> Move("error", svcs, i, NoProposal, 0, 0, FALSE)]
    ELSE grantMove(g, svcs, i, proposeMovement(svcs[i], dt, d.dist, sl),
                   computeMaxAllowedDistance(svcs, svcs[i], mas))

\* the stationary case without its second continue: the service whose delay
\* has elapsed is moved in the same step
motionOfDepartMoving(g, svcs, i, mas, now, dt) ==
    IF svcs[i].State = StateStationary /\ now < svcs[i].DepartureDelay
    THEN [ok |-> TRUE, svc |-> svcs[i],
          move |-> Move("hold", svcs, i, NoProposal, 0, 0, FALSE)]
    ELSE IF svcs[i].State = StateDwelling
    THEN [ok |-> TRUE, svc |-> AdvanceDwell(svcs[i], dt),
          move |-> Move("dwell", svcs, i, NoProposal, 0, 0, FALSE)]
    ELSE moveService(g,
                     [svcs EXCEPT ![i].State =
                         IF @ = StateStationary THEN StateAccelerating ELSE @],
                     i, mas, dt,
                     distanceToNextStop(g, svcs[i]), getSpeedLimitInfo(g, svcs[i]))

\* the body of the loop of pass 2 for service i; svcs holds the services as
\* the loop has left them so far
motionOf(g, svcs, i, mas, now, dt) ==
    IF svcs[i].State = StateStationary
    THEN IF now < svcs[i].DepartureDelay
         THEN [ok |-> TRUE, svc |-> svcs[i],
               move |-> Move("hold", svcs, i, NoProposal, 0, 0, FALSE)]
         ELSE [ok |-> TRUE, svc |-> [svcs[i] EXCEPT !.State = StateAccelerating],
               move |-> Move("depart", svcs, i, NoProposal, 0, 0, FALSE)]
    ELSE IF svcs[i].State = StateDwelling
    THEN [ok |-> TRUE, svc |-> AdvanceDwell(svcs[i], dt),
          move |-> Move("dwell", svcs, i, NoProposal, 0, 0, FALSE)]
    ELSE moveService(g, svcs, i, mas, dt, distanceToNextStop(g, svcs[i]),
                     getSpeedLimitInfo(g, svcs[i]))

RECURSIVE motionPass(_, _, _, _, _, _, _)
\* motionNext building the braking-distance map anew after every service
motionNextRefreshing(g, svcs, i, mas, now, dt, done, r) ==
    IF ~r.ok
    THEN [ok |-> FALSE, services |-> [svcs EXCEPT ![i] = r.svc],
          moves |-> Append(done, r.move)]
    ELSE motionPass(g, [svcs EXCEPT ![i] = r.svc], i + 1,
                    buildMinMAs([svcs EXCEPT ![i] = r.svc]), now, dt,
                    Append(done, r.move))

motionNext(g, svcs, i, mas, now, dt, done, r) ==
    IF ~r.ok
    THEN [ok |-> FALSE, services |-> [svcs EXCEPT ![i] = r.svc],
          moves |-> Append(done, r.move)]
    ELSE motionPass(g, [svcs EXCEPT ![i] = r.svc], i + 1, mas, now, dt,
                    Append(done, r.move))

motionPass(g, svcs, i, mas, now, dt, done) ==
    IF i > Len(svcs) THEN [ok |-> TRUE, services |-> svcs, moves |-> done]
    ELSE motionNext(g, svcs, i, mas, now, dt, done, motionOf(g, svcs, i, mas, now, dt))

\* TMS.step: pass 1, then pass 2 over the services in input order
stepWith(g, svcs, now, dt, mas) ==
    [minMAs |-> mas, pass |-> motionPass(g, svcs, 1, mas, now, dt, <<>>)]

step(g, svcs, now, dt) == stepWith(g, svcs, now, dt, buildMinMAs(svcs))

\* the loop of NewTMS over input.ServiceList
RECURSIVE placeServices(_, _, _, _)
placeNext(g, list, i, done, fs, pos) ==
    IF ~fs.ok \/ ~pos.ok \/ ~NewSimService(list[i], pos.pos).ok
    THEN [ok |-> FALSE, services |-> done]
    ELSE placeServices(g, list, i + 1, Append(done, NewSimService(list[i], pos.pos).svc))

placeServices(g, list, i, done) ==
    IF i > Len(list) THEN [ok |-> TRUE, services |-> done]
    ELSE placeNext(g, list, i, done, GetFirstStop(list[i]),
                   GetPathStartPosition(g, list[i].InitialPosition,
                                        GetFirstStop(list[i]).node))

----------------------------------------------------------------------------
(* The inputs of the model: SimulationInput values                         *)

Edge(id, u, v, len, lim) ==
    [ID |-> id, U |-> u, V |-> v, Length |-> len * Scale, SpeedLimit |-> lim]

Kinem(a, d, m) == [AAcc |-> a, ADcc |-> d, VMaxVal |-> m * Scale]

Vehicle(len, k) == [Length |-> len * Scale, Kinem |-> k]

Stop(n, t) == [NodeID |-> n, TDwell |-> t]

Service(id, init, route, veh, delay) ==
    [ServiceID |-> id, InitialPosition |-> init, Route |-> route,
     Vehicle |-> veh, DepartureDelay |-> delay]

Meta(runTime, timeStep) == [RunTime |-> runTime, TimeStep |-> timeStep]

SimulationInput(meta, nodes, edges, list) ==
    [Meta |-> meta, GraphData |-> [Nodes |-> nodes, Edges |-> edges],
     ServiceList |-> list]

Limits == {<<>>, <<1 * Scale>>, <<2 * Scale>>}

Nodes3 == <<"A", "B", "C">>

\* one edge A->B; C is isolated
LineEdges(len) == <<Edge("AB", "A", "B", len, <<>>)>>

\* A->B and back
LoopEdges(len, l1, l2) ==
    <<Edge("AB", "A", "B", len, l1), Edge("BA", "B", "A", len, l2)>>

\* A->B->C->A
TriEdges(len, l1, l2, l3) ==
    <<Edge("AB", "A", "B", len, l1), Edge("BC", "B", "C", len, l2),
      Edge("CA", "C", "A", len, l3)>>

RunTimes == {0, 3, MaxRunTime}
TimeSteps == {0, 1, 2}

\* one service going back and forth between A and B, every vehicle
SweepInputs ==
    { SimulationInput(Meta(T, D), Nodes3, LoopEdges(6, <<>>, l2),
          <<Service("S1", "A", <<Stop("B", td), Stop("A", td)>>,
                    Vehicle(1, Kinem(a, d, m)), delay)>>) :
        T \in RunTimes, D \in TimeSteps, l2 \in Limits,
        a \in {0, 1, 2}, d \in {0, 1, 2}, m \in {0, 2, 3},
        td \in {0, 2}, delay \in {0, 2} }

TriRoutes ==
    { <<Stop("C", 1), Stop("A", 1)>>,
      <<Stop("B", 1), Stop("C", 1), Stop("A", 1)>>,
      <<Stop("A", 1), Stop("B", 0), Stop("C", 3)>> }

\* one service round the triangle, every mix of speed limits
TriInputs ==
    { SimulationInput(Meta(MaxRunTime, D), Nodes3, TriEdges(5, l1, l2, l3),
          <<Service("S1", "A", route, Vehicle(1, k), 0)>>) :
        D \in {1, 2}, l1 \in Limits, l2 \in Limits, l3 \in Limits,
        route \in TriRoutes,
        k \in {Kinem(1, 1, 3), Kinem(2, 1, 3), Kinem(1, 2, 1)} }

\* two services on the same track
PairInputs ==
    { SimulationInput(Meta(MaxRunTime, 1), Nodes3, edges,
          <<Service("S1", "A", route, Vehicle(len1, k1), d1),
            Service("S2", "A", route, Vehicle(len2, k2), d2)>>) :
        edges \in {LineEdges(8), LoopEdges(6, <<>>, <<>>)},
        route \in {<<Stop("B", td)>> : td \in {0, 2}},
        len1 \in {0, 1, 2}, len2 \in {0, 1, 2},
        k1 \in {Kinem(1, 1, 2), Kinem(1, 1, 1), Kinem(1, 0, 2)},
        k2 \in {Kinem(1, 1, 2), Kinem(2, 1, 3), Kinem(1, 2, 3)},
        d1 \in {0, 2}, d2 \in {0, 1, 3} }

\* leader and follower with identical vehicles on the single edge A->B
FollowInputs ==
    { SimulationInput(Meta(MaxRunTime, 1), Nodes3, LineEdges(8),
          <<Service("S1", "A", <<Stop("B", td)>>, Vehicle(len, Kinem(a, d, m)), 0),
            Service("S2", "A", <<Stop("B", td)>>, Vehicle(len, Kinem(a, d, m)), d2)>>) :
        td \in {0, 2}, len \in {0, 1, 2},
        a \in {0, 1, 2}, d \in {0, 1, 2}, m \in {0, 2, 3}, d2 \in {1, 3} }

\* runs long enough for the sums of the time steps to be rounded
DriftInputs ==
    { SimulationInput(Meta(T, 3), Nodes3, LoopEdges(6, <<>>, <<>>),
          <<Service("S1", "A", <<Stop("B", 2), Stop("A", 2)>>,
                    Vehicle(1, Kinem(1, 1, 2)), 0)>>) :
        T \in {2^Precision + 1, 2^Precision + 7} }

\* dwell times that are a multiple of a time step whose differences are rounded
DwellInputs ==
    { SimulationInput(Meta(8 * D, D), Nodes3, LoopEdges(6, <<>>, <<>>),
          <<Service("S1", "A", <<Stop("B", 4 * D), Stop("A", 0)>>,
                    Vehicle(1, Kinem(1, 1, 2)), 0)>>) :
        D \in {11, 13} }

\* one service whose route is a single stop
OneStopInputs ==
    { SimulationInput(Meta(MaxRunTime, D), Nodes3, edges,
          <<Service("S1", "A", <<Stop("B", td)>>, Vehicle(1, Kinem(1, 1, 2)), 0)>>) :
        D \in {1, 2}, edges \in {LineEdges(6), LoopEdges(6, <<>>, <<>>)},
        td \in {0, 2} }

\* two services, the second starting one node further on
CrossInputs ==
    { SimulationInput(Meta(MaxRunTime, 1), Nodes3, TriEdges(4, <<>>, l2, <<>>),
          <<Service("S1", "A", <<Stop("C", 1), Stop("A", 1)>>, Vehicle(len1, k1), d1),
            Service("S2", "B", <<Stop("C", 2), Stop("B", 0)>>, Vehicle(1, k2), d2)>>) :
        l2 \in {<<>>, <<1 * Scale>>}, len1 \in {0, 2},
        k1 \in {Kinem(1, 1, 2), Kinem(2, 1, 3)},
        k2 \in {Kinem(1, 1, 1), Kinem(1, 1, 2)},
        d1 \in {0, 1}, d2 \in {0, 4} }

\* a second service whose first stop cannot be reached from where it starts:
\* against the direction of the edge, from the isolated node, from a node
\* the graph does not have
StrandedInputs ==
    { SimulationInput(Meta(3, 1), Nodes3, LineEdges(6),
          <<Service("S1", "A", <<Stop("B", 1)>>, Vehicle(1, Kinem(1, 1, 2)), 0),
            Service("S2", init, <<Stop(to, 1)>>, Vehicle(1, Kinem(1, 1, 2)), 0)>>) :
        init \in {"A", "B", "C", "D"}, to \in {"A", "B"} }

\* a stop one short, slower edge beyond the end of the edge the service is on
PriorityInputs ==
    { SimulationInput(Meta(MaxRunTime, D), Nodes3,
          <<Edge("AB", "A", "B", len, <<>>), Edge("BC", "B", "C", 1, <<1 * Scale>>),
            Edge("CA", "C", "A", 3, <<>>)>>,
          <<Service("S1", "A", <<Stop("C", 1), Stop("A", 1)>>, Vehicle(1, k), 0)>>) :
        D \in {1, 2}, len \in {3, 4}, k \in {Kinem(1, 1, 2), Kinem(2, 1, 2)} }

\* inputs that NewGraph, NewTMS or a later step rejects
BadInputs ==
    { SimulationInput(Meta(MaxRunTime, 1), nodes, LineEdges(6),
          <<Service("S1", "A", route, Vehicle(1, Kinem(1, 1, 2)), 0)>>) :
        nodes \in {Nodes3, <<"A", "B", "A">>, <<"A">>},
        route \in { <<>>, <<Stop("A", 1)>>, <<Stop("C", 1)>>,
                    <<Stop("B", 1), Stop("A", 1)>>, <<Stop("B", 1), Stop("C", 1)>> } }

Inputs ==
    SweepInputs \cup TriInputs \cup PairInputs \cup FollowInputs \cup CrossInputs
        \cup DriftInputs \cup DwellInputs \cup OneStopInputs \cup StrandedInputs
        \cup PriorityInputs \cup BadInputs

----------------------------------------------------------------------------
(* The run: NewTMS, then the loop of Run *)

NoCall == [op |-> "none"]

\* what NewTMS and Run hand back: the log, or an error whose text names a
\* service (NoNode for none) and, wrapped by Run, the time of the step
NoTime == -1
NoResult == [kind |-> "none", service |-> NoNode, time |-> NoTime]
LogResult == [kind |-> "log", service |-> NoNode, time |-> NoTime]
ErrorResult(id, t) == [kind |-> "error", service |-> id, time |-> t]

\* NewTMS naming the first service of the input whatever service failed
constructErrorFirst(in, c) ==
    IF ~c.ok THEN ErrorResult(NoNode, NoTime)
    ELSE ErrorResult(in.ServiceList[1].ServiceID, NoTime)

\* NewTMS: "building graph: ..." names no service; the errors of the loop
\* name the service at which the loop stopped
constructError(in, c) ==
    IF ~c.ok THEN ErrorResult(NoNode, NoTime)
    ELSE ErrorResult(in.ServiceList[Len(c.services.services) + 1].ServiceID, NoTime)

\* step names the service whose move failed, Run adds the time
stepError(r, now) ==
    ErrorResult(r.pass.moves[Len(r.pass.moves)].before.ServiceID, now)

Init ==
    /\ input \in Inputs
    /\ pc = "new"
    /\ graph = EmptyGraph
    /\ services = <<>>
    /\ curTime = 0
    /\ nrows = 0
    /\ lastStamp = 0
    /\ minMAs = <<>>
    /\ moves = <<>>
    /\ result = NoResult
    /\ kin = NoCall
    /\ gcall = NoCall

\* NewTMS: the graph with its tables, and the services placed
constructOn(in, gr) ==
    IF ~gr.ok THEN [ok |-> FALSE, g |-> gr.g, services |-> <<>>]
    ELSE [ok |-> TRUE, g |-> ensureShortestPaths(gr.g),
          services |-> placeServices(ensureShortestPaths(gr.g), in.ServiceList, 1, <<>>)]

construct(in) == constructOn(in, NewGraph(in.GraphData))

NewTMSWith(c) ==
    /\ c.ok /\ c.services.ok
    /\ pc' = "run"
    /\ graph' = c.g
    /\ services' = c.services.services
    /\ curTime' = 0
    /\ UNCHANGED <<input, nrows, lastStamp, minMAs, moves, result, kin, gcall>>

NewTMS ==
    /\ pc = "new"
    /\ NewTMSWith(construct(input))

NewTMSFailWith(c) ==
    /\ ~(c.ok /\ c.services.ok)
    /\ pc' = "error"
    /\ result' = constructError(input, c)
    /\ UNCHANGED <<input, graph, services, curTime, nrows, lastStamp, minMAs, moves, kin, gcall>>

NewTMSFail ==
    /\ pc = "new"
    /\ NewTMSFailWith(construct(input))

\* the rows so far of the dwell that service i is in since its arrival, as
\* the log shows them: dwelt up to the row before, dwellRows with the new row
dwellRowsOf(m, old, s) ==
    IF m.arrived THEN 1
    ELSE IF m.kind = "dwell" /\ old > 0 /\ s.State = StateDwelling
         THEN Min(old + 1, MaxRows)
    ELSE 0

countRows(ms, olds, svcs) ==
    [i \in 1..Len(ms) |->
        [ms[i] EXCEPT !.dwelt = IF i <= Len(olds) THEN olds[i].dwellRows ELSE 0,
                      !.dwellRows = dwellRowsOf(ms[i],
                                        IF i <= Len(olds) THEN olds[i].dwellRows ELSE 0,
                                        svcs[i])]]

\* the loop condition of Run
loopCond(now, runTime) == now <= runTime

RunStepWith(r) ==
    /\ r.pass.ok
    /\ services' = r.pass.services
    /\ moves' = countRows(r.pass.moves, moves, r.pass.services)
    /\ minMAs' = r.minMAs
    /\ nrows' = IF nrows < MaxRows THEN nrows + 1 ELSE nrows
    /\ lastStamp' = curTime
    /\ curTime' = RoundToEven(curTime + input.Meta.TimeStep)
    /\ UNCHANGED <<input, pc, graph, result, kin, gcall>>

\* one iteration of the loop of Run whose step succeeds
RunStep ==
    /\ pc = "run"
    /\ loopCond(curTime, input.Meta.RunTime)
    /\ RunStepWith(step(graph, services, curTime, input.Meta.TimeStep))

\* Run returning the rows appended so far together with the error
RunStepFailKeepRows(r) ==
    /\ ~r.pass.ok
    /\ services' = r.pass.services
    /\ moves' = countRows(r.pass.moves, moves, r.pass.services)
    /\ minMAs' = r.minMAs
    /\ pc' = "error"
    /\ result' = stepError(r, curTime)
    /\ UNCHANGED <<input, graph, curTime, nrows, lastStamp, kin, gcall>>

RunStepFailWith(r) ==
    /\ ~r.pass.ok
    /\ services' = r.pass.services
    /\ moves' = countRows(r.pass.moves, moves, r.pass.services)
    /\ minMAs' = r.minMAs
    /\ pc' = "error"
    /\ result' = stepError(r, curTime)
    /\ nrows' = 0
    /\ UNCHANGED <<input, graph, curTime, lastStamp, kin, gcall>>

\* one iteration whose step fails: Run returns the error and an empty log
RunStepFail ==
    /\ pc = "run"
    /\ loopCond(curTime, input.Meta.RunTime)
    /\ RunStepFailWith(step(graph, services, curTime, input.Meta.TimeStep))

\* the loop ends: Run returns the log
RunReturn ==
    /\ pc = "run"
    /\ ~loopCond(curTime, input.Meta.RunTime)
    /\ pc' = "done"
    /\ result' = LogResult
    /\ UNCHANGED <<input, graph, services, curTime, nrows, lastStamp, minMAs, moves, kin, gcall>>

Next == NewTMS \/ NewTMSFail \/ RunStep \/ RunStepFail \/ RunReturn

Spec == Init /\ [][Next]_vars

----------------------------------------------------------------------------
(* Properties of the run.  After a successful step, services is the log    *)
(* row the step returned, moves[i] is what pass 2 did with service i and   *)
(* minMAs is the map of pass 1.                                            *)

NumServices == Len(services)

\* services is a row of the log
Logged == pc \in {"run", "done"} /\ nrows >= 1

EdgeOf(s) == s.CurrentPosition.Edge
DistOf(s) == s.CurrentPosition.DistanceAlongEdge

\* service i as it was when pass 2 reached it, which is as it was at the
\* start of the step
Before(i) == moves[i].before

\* i and j are on one edge at the start and at the end of the step
StayOnOneEdge(i, j) ==
    /\ EdgeOf(Before(i)) = EdgeOf(Before(j))
    /\ EdgeOf(services[i]) = EdgeOf(Before(i))
    /\ EdgeOf(services[j]) = EdgeOf(Before(i))

\* pass 2 advanced service i by a positive distance shorter than proposed
Trimmed(i) ==
    /\ moves[i].kind = "move"
    /\ moves[i].grantedDist > 0
    /\ moves[i].grantedDist < moves[i].proposal.dist

\* a is behind b, or level with it, by at least the length of b
Separated(a, b) == DistOf(a) <= DistOf(b) /\ DistOf(b) - DistOf(a) >= b.Vehicle.Length

LeaderFollower ==
    /\ Len(input.GraphData.Edges) = 1
    /\ Len(input.ServiceList) = 2
    /\ input.ServiceList[1].InitialPosition = "A"
    /\ input.ServiceList[2].InitialPosition = "A"
    /\ input.ServiceList[1].Vehicle = input.ServiceList[2].Vehicle
    /\ input.ServiceList[1].DepartureDelay = 0
    /\ input.ServiceList[2].DepartureDelay > 0

BothOnTheEdge == Logged /\ EdgeOf(services[1]) = EdgeOf(services[2])

\* C2 as stated: in every row of the scenario the follower's position, length
\* and own braking distance fit behind the leader's position
FollowerEnvelope ==
    (LeaderFollower /\ BothOnTheEdge) =>
        FAdd(DistOf(services[2]) + services[2].Vehicle.Length,
             SvcBrakingDistance(services[2])) <= DistOf(services[1])

\* C2: in every row of the scenario in which the follower has left A, its
\* position plus the vehicle length is at most the leader's position; and at the
\* end of a step that advanced the follower, its position plus the vehicle
\* length plus the leader's braking distance of pass 1 is at most the leader's
\* position
FollowerBehindLeader ==
    (LeaderFollower /\ BothOnTheEdge) =>
        /\ DistOf(services[2]) > 0
               => DistOf(services[2]) + services[2].Vehicle.Length <= DistOf(services[1])
        /\ (moves[2].kind = "move" /\ moves[2].grantedDist > 0)
               => FAdd(DistOf(services[2]) + services[1].Vehicle.Length,
                       minMAs[services[1].ServiceID]) <= DistOf(services[1])

\* the follower was trimmed to stop exactly one vehicle length behind the leader
FollowerBehindLeaderWitness ==
    /\ LeaderFollower
    /\ BothOnTheEdge
    /\ Trimmed(2)
    /\ services[2].Vehicle.Length > 0
    /\ DistOf(services[2]) + services[2].Vehicle.Length = DistOf(services[1])

\* j is a candidate of the MA check of i: another service, strictly ahead of i
\* on its edge when pass 2 reached i
AheadAtCheck(i, j) ==
    /\ services[j].ServiceID /= services[i].ServiceID
    /\ moves[i].seen[j].Edge = EdgeOf(Before(i))
    /\ moves[i].seen[j].DistanceAlongEdge > DistOf(Before(i))

\* where the zone of candidate j started at the MA check of i
ZoneStart(i, j) ==
    FSub(moves[i].seen[j].DistanceAlongEdge - services[j].Vehicle.Length,
         minMAs[services[j].ServiceID])

EnvelopeRespectedAt(i, zone) ==
    /\ moves[i].grantedDist <= Max(0, zone - DistOf(Before(i)))
    /\ EdgeOf(services[i]) = EdgeOf(Before(i))
           => DistOf(services[i]) <= Max(DistOf(Before(i)), zone)
    /\ DistOf(Before(i)) >= zone
           => /\ moves[i].grantedDist = 0
              /\ services[i].CurrentPosition = Before(i).CurrentPosition

\* C3: a service that pass 2 moves ends no further than the start of the zone
\* of any service strictly ahead of it on its edge at its MA check, or where it
\* was if that is further; already at or inside the zone it is granted 0 and
\* keeps its position
EnvelopeRespected ==
    Logged =>
        \A i \in 1..NumServices : \A j \in 1..NumServices :
            (moves[i].kind = "move" /\ AheadAtCheck(i, j))
                => EnvelopeRespectedAt(i, ZoneStart(i, j))

\* a service was trimmed to a positive distance by a braking service ahead
EnvelopeRespectedWitness ==
    /\ Logged
    /\ \E i \in 1..NumServices : \E j \in 1..NumServices :
            /\ AheadAtCheck(i, j)
            /\ Trimmed(i)
            /\ minMAs[services[j].ServiceID] > 0
            /\ DistOf(Before(i)) + moves[i].grantedDist = ZoneStart(i, j)

\* C4: in every reachable state every service has 0 <= Velocity <= VMax
VelocityBound ==
    \A i \in 1..NumServices :
        /\ services[i].Velocity >= 0
        /\ services[i].Velocity <= VMax(services[i].Vehicle.Kinem)

\* a service runs at its VMax on an edge whose limit is higher or absent
VelocityBoundWitness ==
    /\ Logged
    /\ \E i \in 1..NumServices :
            /\ moves[i].kind = "move"
            /\ services[i].Velocity > 0
            /\ services[i].Velocity = VMax(services[i].Vehicle.Kinem)
            /\ services[i].Velocity > Before(i).Velocity

OnAnEdge(s, e) == e.ok /\ DistOf(s) >= 0 /\ DistOf(s) <= e.edge.Length

\* C5: in every reachable state every service is on an edge of the graph, at
\* a distance between 0 and the length of that edge
PositionBound ==
    \A i \in 1..NumServices :
        OnAnEdge(services[i], GetEdgeByID(graph, EdgeOf(services[i])))

\* a service crossed onto another edge and went on along it in the same step
PositionBoundWitness ==
    /\ Logged
    /\ \E i \in 1..NumServices :
            /\ moves[i].kind = "move"
            /\ ~moves[i].arrived
            /\ EdgeOf(services[i]) /= EdgeOf(Before(i))
            /\ DistOf(Before(i)) > 0
            /\ DistOf(services[i]) > 0

\* C6: RemainingDwell >= 0 for every service in every row, and a dwelling
\* service with no more than dt of dwell left ends the step accelerating with
\* RemainingDwell 0
DwellNonNegative ==
    \A i \in 1..NumServices :
        /\ services[i].RemainingDwell >= 0
        /\ (Logged /\ moves[i].kind = "dwell"
                /\ Before(i).RemainingDwell <= input.Meta.TimeStep)
               => /\ services[i].RemainingDwell = 0
                  /\ services[i].State = StateAccelerating

\* AdvanceDwell was called with dt larger than the positive dwell remaining
DwellNonNegativeWitness ==
    /\ Logged
    /\ \E i \in 1..NumServices :
            /\ moves[i].kind = "dwell"
            /\ Before(i).RemainingDwell > 0
            /\ Before(i).RemainingDwell < input.Meta.TimeStep
            /\ services[i].State = StateAccelerating

\* C7 as stated: with RunTime T >= 0 and TimeStep D > 0, the row appended
\* last is stamped (number of rows - 1) * D, no row is stamped later than T, and
\* the log Run returns has T \div D + 1 rows
RowCount ==
    (input.Meta.RunTime >= 0 /\ input.Meta.TimeStep > 0) =>
        /\ Logged => /\ lastStamp = (nrows - 1) * input.Meta.TimeStep
                     /\ lastStamp <= input.Meta.RunTime
        /\ pc = "done" => nrows = (input.Meta.RunTime \div input.Meta.TimeStep) + 1

\* C8 as stated: Run terminates; RunTime is fixed, so the loop of Run ends
\* only if every iteration leaves curTime strictly later than it found it
RunTerminates == [][RunStep => curTime' > curTime]_vars

\* the time step of the run, and whether a delay is a multiple of it
TimeStepOf == input.Meta.TimeStep
MultipleOfStep(d) == TimeStepOf > 0 /\ d % TimeStepOf = 0

\* C11 as stated: a service whose departure delay D is a multiple of the time
\* step is logged stationary with velocity 0 in every row stamped D or earlier
DepartureHold ==
    Logged =>
        \A i \in 1..NumServices :
            (MultipleOfStep(services[i].DepartureDelay)
                    /\ lastStamp <= services[i].DepartureDelay)
                => /\ services[i].State = StateStationary
                   /\ services[i].Velocity = 0

\* the only service of the run, its delay a multiple of the time step
LoneDeparture ==
    /\ Logged
    /\ NumServices = 1
    /\ MultipleOfStep(services[1].DepartureDelay)

\* the velocity of the first moving step: min(a_acc * dt, effective VMax)
FirstVelocity(s, sl) == Min(s.Vehicle.Kinem.AAcc * Scale * TimeStepOf, sl.currentMax)

DepartureStepAt(s, stamp, sl) ==
    /\ stamp <= s.DepartureDelay
           => (DistOf(s) = 0 /\ s.Velocity = 0 /\ s.CurrentPosition = Before(1).CurrentPosition)
    /\ DistOf(s) > 0 => stamp >= s.DepartureDelay + TimeStepOf
    /\ stamp = s.DepartureDelay + TimeStepOf
           => (DistOf(s) > 0 /\ s.Velocity = FirstVelocity(s, sl))

Drivable(k) == k.AAcc > 0 /\ k.ADcc > 0 /\ k.VMaxVal > 0

\* where NewTMS placed s: the start of the first edge towards its first stop
StartPosition(s) ==
    GetPathStartPosition(graph, s.InitialPosition, GetFirstStop(s).node).pos

DepartureMovedAt(s, stamp, sl) ==
    /\ stamp <= s.DepartureDelay
           => (s.CurrentPosition = StartPosition(s) /\ s.Velocity = 0)
    /\ s.CurrentPosition /= StartPosition(s) => stamp >= s.DepartureDelay + TimeStepOf
    /\ stamp = s.DepartureDelay + TimeStepOf
           => (s.CurrentPosition /= StartPosition(s) /\ s.Velocity = FirstVelocity(s, sl))

DepartureOntoNextEdge ==
    /\ LoneDeparture
    /\ Drivable(services[1].Vehicle.Kinem)
    /\ lastStamp = services[1].DepartureDelay + TimeStepOf
    /\ EdgeOf(services[1]) /= EdgeOf(Before(1))
    /\ DistOf(services[1]) = 0

\* the route entry the pointer of s designates, and the pointer after it
StopOf(s) == s.Route[s.nextStopIndex + 1]
NextIndex(s) == (s.nextStopIndex + 1) % Len(s.Route)

\* s stands at the end of edge e, dwelling for the stop b was heading to
ArrivedAt(s, b, e) ==
    /\ e.ok
    /\ e.edge.V = b.NextStop
    /\ DistOf(s) = e.edge.Length
    /\ s.State = StateDwelling
    /\ s.Velocity = 0
    /\ s.RemainingDwell = StopOf(b).TDwell
    /\ s.nextStopIndex = NextIndex(b)
    /\ s.NextStop = s.Route[NextIndex(b) + 1].NodeID

\* pass 2 granted service i a distance that takes it to its next stop
ReachesStop(i, d) ==
    /\ moves[i].kind = "move"
    /\ d.ok
    /\ moves[i].grantedDist >= d.dist

\* C13: a service granted a distance that takes it to its next stop ends the
\* step at the end of the edge into that stop, dwelling with velocity 0,
\* RemainingDwell the t_dwell of that stop and the pointer advanced by one,
\* whatever distance was left over and whatever the proposal's velocity and state
ArrivalEffect ==
    Logged =>
        \A i \in 1..NumServices :
            ReachesStop(i, distanceToNextStop(graph, Before(i)))
                => /\ moves[i].arrived
                   /\ ArrivedAt(services[i], Before(i),
                                GetEdgeByID(graph, EdgeOf(services[i])))

\* the same for the services that were granted a distance above 0: the loop
\* of advancePosition registers an arrival only while distance is left
ArrivalEffectMoving ==
    Logged =>
        \A i \in 1..NumServices :
            (moves[i].grantedDist > 0
                /\ ReachesStop(i, distanceToNextStop(graph, Before(i))))
                => /\ moves[i].arrived
                   /\ ArrivedAt(services[i], Before(i),
                                GetEdgeByID(graph, EdgeOf(services[i])))

\* the stop service s is dwelling at after an arrival: the entry before the
\* one its pointer designates
DwellStop(s) == s.Route[((s.nextStopIndex + Len(s.Route) - 1) % Len(s.Route)) + 1]

\* the dwell of service i began with an arrival at a stop whose t_dwell is
\* K * dt for a K >= 1
WholeDwell(i, s) ==
    /\ moves[i].dwelt > 0
    /\ MultipleOfStep(DwellStop(s).TDwell)
    /\ DwellStop(s).TDwell >= TimeStepOf

\* C14: a service that arrives at a stop whose t_dwell is K * dt is logged
\* dwelling in exactly K consecutive rows starting with the arrival row, at
\* the same position with velocity 0, and accelerating with velocity 0 in the
\* row after those
DwellDuration ==
    Logged =>
        \A i \in 1..NumServices :
            (moves[i].kind = "dwell" /\ WholeDwell(i, services[i]))
                => /\ services[i].Velocity = 0
                   /\ services[i].CurrentPosition = Before(i).CurrentPosition
                   /\ moves[i].dwellRows * TimeStepOf <= DwellStop(services[i]).TDwell
                   /\ services[i].State /= StateDwelling
                          => /\ services[i].State = StateAccelerating
                             /\ moves[i].dwelt * TimeStepOf
                                    = DwellStop(services[i]).TDwell

\* the dwell of service i ended in the last step
DwellEnded(i) == moves[i].kind = "dwell" /\ services[i].State /= StateDwelling

\* C15 as stated: the step that ends a dwell advances the pointer by one, and
\* a dwelling service's pointer designates the stop it is dwelling at
PointerAdvancesAtEndOfDwell ==
    Logged =>
        \A i \in 1..NumServices :
            /\ DwellEnded(i)
                   => /\ services[i].nextStopIndex = NextIndex(Before(i))
                      /\ services[i].State = StateAccelerating
                      /\ services[i].Velocity = 0
            /\ (moves[i].arrived \/ (moves[i].kind = "dwell" /\ ~DwellEnded(i)))
                   => services[i].NextStop
                          = GetEdgeByID(graph, EdgeOf(services[i])).edge.V

\* C15: the pointer advances by one in the step of the arrival and not in
\* the steps of the dwell; the step that ends the dwell leaves the service
\* accelerating with velocity 0 and RemainingDwell 0, heading for the stop
\* after the one it dwelt at
PointerAdvancesAtArrival ==
    Logged =>
        \A i \in 1..NumServices :
            /\ moves[i].arrived
                   => services[i].nextStopIndex = NextIndex(Before(i))
            /\ moves[i].kind = "dwell"
                   => /\ services[i].nextStopIndex = Before(i).nextStopIndex
                      /\ services[i].NextStop = Before(i).NextStop
            /\ DwellEnded(i)
                   => /\ services[i].State = StateAccelerating
                      /\ services[i].Velocity = 0
                      /\ services[i].RemainingDwell = 0

\* a dwell ended at a node that is not the next stop
PointerAdvancesAtArrivalWitness ==
    /\ Logged
    /\ \E i \in 1..NumServices :
            /\ DwellEnded(i)
            /\ Len(services[i].Route) >= 2
            /\ DistOf(services[i]) > 0
            /\ services[i].NextStop /= GetEdgeByID(graph, EdgeOf(services[i])).edge.V

\* where NewSimService leaves the pointer
FirstIndex(s) == IF s.InitialPosition = s.Route[1].NodeID THEN 1 ELSE 0

PointerOf(s) ==
    /\ s.nextStopIndex \in 0..(Len(s.Route) - 1)
    /\ s.NextStop = s.Route[s.nextStopIndex + 1].NodeID

\* C16: NextStop is the node of route entry nextStopIndex, the index within
\* the route; it starts at the first stop that is not the initial node, and a
\* step leaves it as it is or moves it to the next index modulo the length
CyclicRoute ==
    \A i \in 1..NumServices :
        /\ PointerOf(services[i])
        /\ (pc = "run" /\ nrows = 0)
               => services[i].nextStopIndex = FirstIndex(services[i])
        /\ Logged
               => \/ services[i].nextStopIndex = Before(i).nextStopIndex
                  \/ services[i].nextStopIndex = NextIndex(Before(i))

\* the pointer of a route of three stops wrapped round to the first
CyclicRouteWitness ==
    /\ Logged
    /\ \E i \in 1..NumServices :
            /\ Len(services[i].Route) = 3
            /\ Before(i).nextStopIndex = 2
            /\ services[i].nextStopIndex = 0
            /\ services[i].InitialPosition = services[i].Route[1].NodeID

\* a service alone on the network with a vehicle that can drive, past its
\* departure, in a run whose time advances
LoneDriver ==
    /\ Logged
    /\ NumServices = 1
    /\ TimeStepOf > 0
    /\ Drivable(services[1].Vehicle.Kinem)
    /\ Before(1).State /= StateStationary

\* two steps in a row without an arrival that leave the one service exactly
\* as it was two rows before: alone, its steps depend on nothing else, so
\* the two steps repeat for the rest of the run and it never arrives again
ArrivalFreeCycle ==
    /\ LoneDriver
    /\ ~moves[1].arrived
    /\ ~moves'[1].arrived
    /\ services'[1] = Before(1)

\* C17: a lone service with v_max, a_acc, a_dcc > 0 keeps arriving at its
\* next stop; it never ends up alternating between states without arriving
Progress == [][RunStep => ~ArrivalFreeCycle]_vars

\* the same for routes of two stops or more
ProgressOnLongRoutes ==
    [][(RunStep /\ Len(services[1].Route) >= 2) => ~ArrivalFreeCycle]_vars

\* the transitions the design lists
ListedTransitions ==
    { <<StateStationary, StateAccelerating>>,
      <<StateAccelerating, StateCruising>>, <<StateAccelerating, StateDecelerating>>,
      <<StateCruising, StateDecelerating>>,
      <<StateDecelerating, StateCruising>>, <<StateDecelerating, StateDwelling>>,
      <<StateDwelling, StateAccelerating>> }

\* those of an arrival, of stop braking and of a trimmed movement that end
\* at a standstill within the step
StandstillTransitions ==
    { <<StateAccelerating, StateDwelling>>, <<StateCruising, StateDwelling>> }

\* the states of service i in the last two rows
StatePair(i) == <<Before(i).State, services[i].State>>

\* C18 as stated: between two rows the state stays or makes a listed transition
ListedTransitionsOnly ==
    Logged =>
        \A i \in 1..NumServices :
            \/ Before(i).State = services[i].State
            \/ StatePair(i) \in ListedTransitions

\* C18: between two rows the state stays, makes a listed transition, or goes
\* from accelerating or cruising to dwelling
TransitionRelation ==
    Logged =>
        \A i \in 1..NumServices :
            \/ Before(i).State = services[i].State
            \/ StatePair(i) \in ListedTransitions \cup StandstillTransitions

\* a service arrived at its stop while accelerating
TransitionRelationWitness ==
    /\ Logged
    /\ \E i \in 1..NumServices :
            /\ StatePair(i) = <<StateAccelerating, StateDwelling>>
            /\ moves[i].arrived
            /\ Before(i).Velocity > 0

\* a service arrived at its stop while cruising
CruisingToDwelling ==
    /\ Logged
    /\ \E i \in 1..NumServices : StatePair(i) = <<StateCruising, StateDwelling>>

\* the effective VMax of the edge service s is on
EffectiveVMax(s) == getSpeedLimitInfo(graph, s).currentMax

\* C19: a service logged cruising travels at the effective VMax of the edge
\* it is on, min(vehicle VMax, speed limit of the edge)
CruisingAtLimit ==
    Logged =>
        \A i \in 1..NumServices :
            services[i].State = StateCruising
                => services[i].Velocity = EffectiveVMax(services[i])

\* in the last step service i went on, without arriving, from the edge it
\* was on onto the next edge, whose effective VMax is the lower one
CrossedToLowerLimit(i, old, new) ==
    /\ moves[i].kind = "move"
    /\ ~moves[i].arrived
    /\ old.ok /\ new.ok
    /\ old.edge.ID /= new.edge.ID
    /\ new.edge.U = old.edge.V
    /\ EffectiveVMax(services[i]) < EffectiveVMax(Before(i))

\* C20: in the first row in which a service is on an edge with a lower
\* effective limit than the edge it came from, its velocity is at or below
\* the effective limit of the new edge
LookaheadAtBoundary ==
    Logged =>
        \A i \in 1..NumServices :
            CrossedToLowerLimit(i, GetEdgeByID(graph, EdgeOf(Before(i))),
                                GetEdgeByID(graph, EdgeOf(services[i])))
                => services[i].Velocity <= EffectiveVMax(services[i])

\* in the last step service i, at rest at the node that ends edge old, set
\* off onto edge new, which starts at that node
DepartedOnto(i, old, new) ==
    /\ moves[i].kind = "move"
    /\ ~moves[i].arrived
    /\ old.ok /\ new.ok
    /\ Before(i).Velocity = 0
    /\ DistOf(Before(i)) = old.edge.Length
    /\ new.edge.ID /= old.edge.ID
    /\ new.edge.U = old.edge.V

\* C21: a service that departs from rest at the start node of an edge is at or
\* below min(vehicle VMax, speed limit of the edge) in its first row on it
LimitAfterStop ==
    Logged =>
        \A i \in 1..NumServices :
            DepartedOnto(i, GetEdgeByID(graph, EdgeOf(Before(i))),
                         GetEdgeByID(graph, EdgeOf(services[i])))
                => services[i].Velocity <= EffectiveVMax(services[i])

\* what GetFirstStop is to answer for service svc
FirstStopFails(svc) ==
    \/ Len(svc.Route) = 0
    \/ (Len(svc.Route) = 1 /\ svc.InitialPosition = svc.Route[1].NodeID)

FirstStopAnswer(svc, fs) ==
    /\ fs.ok <=> ~FirstStopFails(svc)
    /\ (Len(svc.Route) >= 2 /\ svc.InitialPosition = svc.Route[1].NodeID)
           => (fs.ok /\ fs.node = svc.Route[2].NodeID /\ fs.idx = 1)
    /\ (Len(svc.Route) >= 1 /\ svc.InitialPosition /= svc.Route[1].NodeID)
           => (fs.ok /\ fs.node = svc.Route[1].NodeID /\ fs.idx = 0)

\* a service as NewSimService leaves it
FreshService(s, fs) ==
    /\ s.State = StateStationary
    /\ s.Velocity = 0
    /\ s.RemainingDwell = 0
    /\ s.NextStop = fs.node
    /\ s.nextStopIndex = fs.idx

\* the services are as NewTMS built them
Constructed == pc = "run" /\ nrows = 0

\* C22: GetFirstStop answers (route[1], 1) for a route of two stops or more
\* that starts at the initial node, (route[0], 0) for a route that starts
\* elsewhere, and fails exactly for an empty route and for a route whose only
\* stop is the initial node; NewSimService starts every service stationary
\* with velocity 0, remaining dwell 0 and that stop and index
FirstStop ==
    /\ \A k \in 1..Len(input.ServiceList) :
            FirstStopAnswer(input.ServiceList[k], GetFirstStop(input.ServiceList[k]))
    /\ Constructed
           => \A i \in 1..NumServices :
                  FreshService(services[i], GetFirstStop(input.ServiceList[i]))

\* a constructed service whose route starts at its initial node
FirstStopWitness ==
    /\ Constructed
    /\ \E i \in 1..NumServices :
            /\ Len(services[i].Route) >= 2
            /\ services[i].InitialPosition = services[i].Route[1].NodeID
            /\ services[i].nextStopIndex = 1
            /\ services[i].NextStop = services[i].Route[2].NodeID
            /\ services[i].State = StateStationary

\* the nodes that directed paths over the edges es lead to from the nodes S
RECURSIVE ReachFrom(_, _)
ReachFrom(es, S) ==
    LET T == S \cup {es[k].V : k \in {n \in 1..Len(es) : es[n].U \in S}}
    IN  IF T = S THEN S ELSE ReachFrom(es, T)

HasPath(data, u, v) ==
    /\ \E n \in 1..Len(data.Nodes) : data.Nodes[n] = u
    /\ v \in ReachFrom(data.Edges, {u})

\* the first target of a service that has one
FirstTarget(svc) ==
    IF svc.InitialPosition = svc.Route[1].NodeID THEN svc.Route[2].NodeID
    ELSE svc.Route[1].NodeID

\* service svc has a first target and no directed path leads to it
Stranded(data, svc) ==
    /\ ~FirstStopFails(svc)
    /\ FirstTarget(svc) /= svc.InitialPosition
    /\ ~HasPath(data, svc.InitialPosition, FirstTarget(svc))

Placeable(data, svc) ==
    /\ ~FirstStopFails(svc)
    /\ FirstTarget(svc) /= svc.InitialPosition
    /\ HasPath(data, svc.InitialPosition, FirstTarget(svc))

\* NewTMS returned an error that names service id: no step was executed and
\* there is no log
ConstructionFailedAt(id) ==
    /\ pc = "error"
    /\ result = ErrorResult(id, NoTime)
    /\ services = <<>>
    /\ nrows = 0
    /\ curTime = 0
    /\ moves = <<>>

\* C23: if the graph is accepted and there is no directed path from the
\* initial node of a service to its first target (the services before it being
\* placed), NewTMS returns an error that names that service, executes no
\* step and produces no log
UnreachableFirstStop ==
    (pc /= "new" /\ NewGraph(input.GraphData).ok) =>
        \A k \in 1..Len(input.ServiceList) :
            (/\ Stranded(input.GraphData, input.ServiceList[k])
             /\ \A j \in 1..(k - 1) : Placeable(input.GraphData, input.ServiceList[j]))
                => ConstructionFailedAt(input.ServiceList[k].ServiceID)

\* NewTMS failed at the second service, whose initial node the graph lacks
UnreachableFirstStopWitness ==
    /\ Len(input.ServiceList) = 2
    /\ Stranded(input.GraphData, input.ServiceList[2])
    /\ \A n \in 1..Len(input.GraphData.Nodes) :
            input.GraphData.Nodes[n] /= input.ServiceList[2].InitialPosition
    /\ ConstructionFailedAt("S2")

\* service s is to move and no directed path leads from the end of its edge
\* to its next stop
Stuck(s, e) ==
    /\ s.State /= StateStationary
    /\ s.State /= StateDwelling
    /\ e.ok
    /\ e.edge.V /= s.NextStop
    /\ ~HasPath(input.GraphData, e.edge.V, s.NextStop)

StuckServices ==
    {i \in 1..NumServices : Stuck(services[i], GetEdgeByID(graph, EdgeOf(services[i])))}

\* Run returned an error for the step at time t and no log
StepFailedAt(ids, t) ==
    /\ pc = "error"
    /\ result.kind = "error"
    /\ result.service \in ids
    /\ result.time = t
    /\ nrows = 0

\* C24: an iteration of Run in which a service is to move towards a stop no
\* path leads to ends the run with an error that names such a service and
\* the time of the step, and with an empty log; nothing is executed after an
\* error
ErrorsAbort ==
    [][/\ pc /= "error"
       /\ (pc = "run" /\ loopCond(curTime, input.Meta.RunTime) /\ StuckServices /= {})
              => StepFailedAt({services[i].ServiceID : i \in StuckServices}, curTime)']_vars

\* a step failed after rows had been appended to the log
ErrorsAbortWitness ==
    /\ pc = "error"
    /\ moves /= <<>>
    /\ lastStamp > 0
    /\ result = ErrorResult("S1", curTime)
    /\ nrows = 0

\* the conditions of the first three rules of proposeMovement for service b
StopRule(b, d) == d <= BrakingDistance(b.Vehicle.Kinem, b.Velocity)

LookaheadRule(b, sl) ==
    /\ sl.nextMax > 0
    /\ sl.nextMax < sl.currentMax
    /\ b.Velocity > sl.nextMax
    /\ sl.distToChange <= BrakingDistanceTo(b.Vehicle.Kinem, b.Velocity, sl.nextMax)

OverLimitRule(b, sl) == b.Velocity > sl.currentMax

\* braking towards target: the state is atTarget once the target is reached
BrakingProposal(r, target, atTarget) ==
    IF r.newV <= target THEN Proposal(r.dist, IF target = 0 THEN 0 ELSE r.newV, atTarget)
    ELSE Proposal(r.dist, r.newV, StateDecelerating)

\* the step the state of b asks for
StateDriven(b, dt, sl, acc) ==
    CASE b.State = StateAccelerating ->
             IF acc.newV >= sl.currentMax
             THEN Proposal(acc.dist, sl.currentMax, StateCruising)
             ELSE Proposal(acc.dist, acc.newV, StateAccelerating)
      [] b.State = StateCruising ->
             Proposal(sl.currentMax * dt, sl.currentMax, StateCruising)
      [] b.State = StateDecelerating ->
             BrakingProposal(DecelerateStep(b.Vehicle.Kinem, b.Velocity, 0, dt), 0,
                             StateDwelling)
      [] OTHER -> Proposal(0, b.Velocity, b.State)

\* the proposal of the first rule whose condition holds
ByPriority(b, dt, d, sl) ==
    IF StopRule(b, d)
    THEN BrakingProposal(DecelerateStep(b.Vehicle.Kinem, b.Velocity, 0, dt), 0,
                         StateDwelling)
    ELSE IF LookaheadRule(b, sl)
    THEN BrakingProposal(DecelerateStep(b.Vehicle.Kinem, b.Velocity, sl.nextMax, dt),
                         sl.nextMax, StateCruising)
    ELSE IF OverLimitRule(b, sl)
    THEN BrakingProposal(DecelerateStep(b.Vehicle.Kinem, b.Velocity, sl.currentMax, dt),
                         sl.currentMax, StateCruising)
    ELSE StateDriven(b, dt, sl,
                     AccelerateStep(b.Vehicle.Kinem, b.Velocity, sl.currentMax, dt))

\* C28: the proposal of every moved service is that of the first rule, in
\* the order stop braking, lookahead braking, over-limit braking, state-driven
\* step, whose condition holds
ProposalPriority ==
    Logged =>
        \A i \in 1..NumServices :
            moves[i].kind = "move"
                => moves[i].proposal
                       = ByPriority(Before(i), TimeStepOf,
                                    distanceToNextStop(graph, Before(i)).dist,
                                    getSpeedLimitInfo(graph, Before(i)))

\* stop braking was proposed to a service for which the lookahead rule held
\* as well
ProposalPriorityWitness ==
    /\ Logged
    /\ \E i \in 1..NumServices :
            /\ moves[i].kind = "move"
            /\ StopRule(Before(i), distanceToNextStop(graph, Before(i)).dist)
            /\ LookaheadRule(Before(i), getSpeedLimitInfo(graph, Before(i)))
            /\ moves[i].proposal
                   # BrakingProposal(DecelerateStep(Before(i).Vehicle.Kinem,
                                                    Before(i).Velocity,
                                                    getSpeedLimitInfo(graph, Before(i)).nextMax,
                                                    TimeStepOf),
                                     getSpeedLimitInfo(graph, Before(i)).nextMax,
                                     StateCruising)

\* no other service was strictly ahead of i on its edge at its MA check
NoCandidate(i) == \A j \in 1..NumServices : ~AheadAtCheck(i, j)

FreeGrant(i) == moves[i].grantedDist = moves[i].proposal.dist

AsProposed(i) ==
    /\ services[i].Velocity = moves[i].proposal.newV
    /\ services[i].State = moves[i].proposal.newState

\* C29 as stated: a moved service without a candidate is granted what it
\* proposed and ends the step with the velocity and state of its proposal
NoCandidateAsProposed ==
    Logged =>
        \A i \in 1..NumServices :
            (moves[i].kind = "move" /\ NoCandidate(i))
                => FreeGrant(i) /\ AsProposed(i)

\* C29: a moved service without a candidate is granted what it proposed; it
\* ends the step with the velocity and state of its proposal unless it arrives
\* at its stop in the step, and then it is dwelling at velocity 0
NoCandidateNoConstraint ==
    Logged =>
        \A i \in 1..NumServices :
            (moves[i].kind = "move" /\ NoCandidate(i))
                => /\ FreeGrant(i)
                   /\ moves[i].maxAllowed = MaxFloat64
                   /\ ~moves[i].arrived => AsProposed(i)
                   /\ moves[i].arrived
                          => /\ services[i].Velocity = 0
                             /\ services[i].State = StateDwelling

\* a service moved its whole proposal onto the next edge and into the zone of
\* a service ahead of it there
NoCandidateNoConstraintWitness ==
    /\ Logged
    /\ \E i \in 1..NumServices : \E j \in 1..NumServices :
            /\ moves[i].kind = "move"
            /\ NoCandidate(i)
            /\ moves[i].proposal.dist > 0
            /\ ~moves[i].arrived
            /\ services[j].ServiceID /= services[i].ServiceID
            /\ EdgeOf(services[i]) /= EdgeOf(Before(i))
            /\ moves[i].seen[j].Edge = EdgeOf(services[i])
            /\ moves[i].seen[j].DistanceAlongEdge > DistOf(services[i])
            /\ ZoneStart(i, j) < DistOf(services[i])

\* the braking distance of service i at the start of the step
BrakingBefore(i) == BrakingDistance(Before(i).Vehicle.Kinem, Before(i).Velocity)

\* the least element of a non-empty finite set of numbers
Least(S) == CHOOSE x \in S : \A y \in S : x <= y

\* what the MA check of i allows, from the positions it saw and the map
AllowedFromSeen(i) ==
    IF NoCandidate(i) THEN MaxFloat64
    ELSE Max(0, Least({ ZoneStart(i, j) - DistOf(Before(i)) :
                            j \in { k \in 1..NumServices : AheadAtCheck(i, k) } }))

\* the positions the MA check of i saw: those after the move of the services
\* before i in input order, those of the start of the step of the others
SeenInOrder(i) ==
    \A j \in 1..NumServices :
        moves[i].seen[j] = IF j < i THEN services[j].CurrentPosition
                           ELSE Before(j).CurrentPosition

\* C30: over a step the map holds for every service, whatever pass 2 does
\* with it, the braking distance of its velocity at the start of the step; the
\* MA check of a service sees the services before it in input order where their
\* move of this step left them and the others where they were at the start of
\* the step, and allows what these positions and the map give
TwoPassOrdering ==
    Logged =>
        /\ DOMAIN minMAs = { services[i].ServiceID : i \in 1..NumServices }
        /\ \A i \in 1..NumServices :
                /\ minMAs[services[i].ServiceID] = BrakingBefore(i)
                /\ SeenInOrder(i)
                /\ moves[i].kind = "move" => moves[i].maxAllowed = AllowedFromSeen(i)

\* the follower was trimmed against the place its leader reached in this step
\* and the braking distance the leader had before it, which the move changed;
\* the leader's own check saw the follower where it started the step
TwoPassOrderingWitness ==
    /\ Logged
    /\ \E a \in 1..NumServices : \E b \in 1..NumServices :
            /\ a < b
            /\ moves[a].kind = "move"
            /\ AheadAtCheck(b, a)
            /\ Trimmed(b)
            /\ services[a].CurrentPosition /= Before(a).CurrentPosition
            /\ SvcBrakingDistance(services[a]) /= BrakingBefore(a)
            /\ moves[a].seen[b] /= services[b].CurrentPosition

\* the next-stop pointer of service i is as it was at the start of the step
PointerKept(i) ==
    /\ services[i].nextStopIndex = Before(i).nextStopIndex
    /\ services[i].NextStop = Before(i).NextStop

\* the step left service i dwelling although it did not arrive
DwellingWithoutArrival(i) ==
    /\ moves[i].kind = "move"
    /\ ~moves[i].arrived
    /\ services[i].State = StateDwelling

\* service i began the step dwelling away from the end of its edge: its dwell
\* was not started by an arrival
HeldOnTheTrack(i) ==
    /\ moves[i].kind = "dwell"
    /\ GetEdgeByID(graph, EdgeOf(Before(i))).ok
    /\ DistOf(Before(i)) < GetEdgeByID(graph, EdgeOf(Before(i))).edge.Length

\* C31: a step in which a service does not arrive at its next stop leaves its
\* next-stop pointer unchanged and does not raise its remaining dwell; a step
\* that leaves it dwelling without arrival leaves its remaining dwell as it
\* was, and AdvanceDwell on a service held on the track ends the hold with the
\* pointer unchanged and no dwell time loaded
PointerOnlyByArrival ==
    Logged =>
        \A i \in 1..NumServices :
            /\ ~moves[i].arrived
                   => /\ PointerKept(i)
                      /\ services[i].RemainingDwell <= Before(i).RemainingDwell
            /\ DwellingWithoutArrival(i)
                   => services[i].RemainingDwell = Before(i).RemainingDwell
            /\ HeldOnTheTrack(i)
                   => /\ PointerKept(i)
                      /\ services[i].RemainingDwell = 0
                      /\ services[i].State = StateAccelerating

\* a service brought to a standstill by the MA trim, short of its stop and
\* dwelling, was released by AdvanceDwell in the next step
PointerOnlyByArrivalWitness ==
    /\ Logged
    /\ \E i \in 1..NumServices :
            /\ HeldOnTheTrack(i)
            /\ Before(i).RemainingDwell = 0
            /\ StopOf(Before(i)).TDwell > 0
            /\ \E j \in 1..NumServices :
                    /\ j /= i
                    /\ moves[i].seen[j].Edge = EdgeOf(Before(i))
                    /\ moves[i].seen[j].DistanceAlongEdge > DistOf(Before(i))

\* the MA granted service i nothing of a positive proposal
Blocked(i) ==
    /\ moves[i].kind = "move"
    /\ moves[i].proposal.dist > 0
    /\ moves[i].grantedDist = 0

\* a blocked service ends the step at rest, dwelling
BlockedAtRest ==
    Logged =>
        \A i \in 1..NumServices :
            (Blocked(i) /\ Drivable(services[i].Vehicle.Kinem))
                => /\ services[i].Velocity = 0
                   /\ services[i].State = StateDwelling

\* C32: at the end of every step a service whose position the step did not
\* change has velocity 0, and a service the MA granted a distance of 0 is at
\* rest in state dwelling
VelocityMatchesDisplacement ==
    Logged =>
        \A i \in 1..NumServices :
            /\ services[i].CurrentPosition = Before(i).CurrentPosition
                   => services[i].Velocity = 0
            /\ Blocked(i)
                   => /\ services[i].Velocity = 0
                      /\ services[i].State = StateDwelling

HeldStates == {StateStationary, StateDwelling}

\* service i began the step in a held state
HeldBefore(i) == Before(i).State \in HeldStates

\* the step changed nothing of service i but its state and remaining dwell
OnlyStateAndDwell(i) ==
    services[i] = [Before(i) EXCEPT !.State = services[i].State,
                                    !.RemainingDwell = services[i].RemainingDwell]

\* C33: a stationary or dwelling service has velocity 0 in every reachable
\* state; a step that begins with the service stationary or dwelling changes
\* nothing but its state, which stays or becomes accelerating, and its
\* remaining dwell, which a stationary service keeps
HeldStatesDoNotMove ==
    /\ \A i \in 1..NumServices :
            services[i].State \in HeldStates => services[i].Velocity = 0
    /\ Logged =>
            \A i \in 1..NumServices :
                HeldBefore(i)
                    => /\ OnlyStateAndDwell(i)
                       /\ services[i].Velocity = 0
                       /\ services[i].State \in {Before(i).State, StateAccelerating}
                       /\ Before(i).State = StateStationary
                              => services[i].RemainingDwell = Before(i).RemainingDwell

\* a service dwelling at the stop it drove to with time left was released,
\* and is where it was
HeldStatesDoNotMoveWitness ==
    /\ Logged
    /\ \E i \in 1..NumServices :
            /\ Before(i).State = StateDwelling
            /\ Before(i).RemainingDwell > 0
            /\ DistOf(Before(i)) > 0
            /\ services[i].State = StateAccelerating
            /\ services[i].CurrentPosition = Before(i).CurrentPosition

----------------------------------------------------------------------------
(* The motion model on its own: one call of one operation per behaviour    *)

KinInputs ==
    { [c |-> Kinem(a, d, m), v |-> v, targetV |-> t, dt |-> dt, dist |-> x] :
        a \in {0, 1, 2}, d \in {0, 1, 2}, m \in {0, 3},
        v \in {0, 2, 4, 8}, t \in {0, 2, 4, 8}, dt \in {1, 2}, x \in {0, 3} }

Call(in, op, out) == [op |-> op, in |-> in, out |-> out]

KinInit ==
    /\ input \in KinInputs
    /\ pc = "kin"
    /\ graph = EmptyGraph
    /\ services = <<>>
    /\ curTime = 0
    /\ nrows = 0
    /\ lastStamp = 0
    /\ minMAs = <<>>
    /\ moves = <<>>
    /\ result = NoResult
    /\ kin = NoCall
    /\ gcall = NoCall

KinCall(op, out) ==
    /\ pc = "kin"
    /\ pc' = "kin-done"
    /\ kin' = Call(input, op, out)
    /\ UNCHANGED <<input, graph, services, curTime, nrows, lastStamp, minMAs, moves,
                   result, gcall>>

CallBrakingDistance == KinCall("BrakingDistance", BrakingDistance(input.c, input.v))

CallBrakingDistanceTo ==
    KinCall("BrakingDistanceTo", BrakingDistanceTo(input.c, input.v, input.targetV))

CallVelocityAfterBraking ==
    KinCall("VelocityAfterBraking", VelocityAfterBraking(input.c, input.v, input.dist))

CallAccelerateStep ==
    KinCall("AccelerateStep", AccelerateStep(input.c, input.v, input.targetV, input.dt))

CallDecelerateStep ==
    KinCall("DecelerateStep", DecelerateStep(input.c, input.v, input.targetV, input.dt))

KinNext ==
    \/ CallBrakingDistance
    \/ CallBrakingDistanceTo
    \/ CallVelocityAfterBraking
    \/ CallAccelerateStep
    \/ CallDecelerateStep

KinSpec == KinInit /\ [][KinNext]_vars

\* C10 as stated: BrakingDistanceTo(v, vT) is 0 whenever v <= vT, and
\* AccelerateStep(v, v, dt) returns (v * dt, v), whatever the parameters
MotionModelIdentities ==
    /\ (kin.op = "BrakingDistanceTo" /\ kin.in.v <= kin.in.targetV) => kin.out = 0
    /\ (kin.op = "AccelerateStep" /\ kin.in.v = kin.in.targetV)
           => kin.out = [dist |-> kin.in.v * kin.in.dt, newV |-> kin.in.v]

----------------------------------------------------------------------------
(* The Graph on its own: AddNode, AddEdge and GetShortestPath called in    *)
(* any order on a graph built by NewGraph                                  *)

GraphData(nodes, edges) == [Nodes |-> nodes, Edges |-> edges]

\* two edges from A to B, the way round by B to C and the direct edge, an
\* edge id used twice, and an edge to a node no graph has
GraphEdges ==
    { Edge("ab", "A", "B", 3, <<>>), Edge("ab2", "A", "B", 5, <<>>),
      Edge("bc", "B", "C", 1, <<>>), Edge("ac", "A", "C", 2, <<>>),
      Edge("ab", "C", "A", 1, <<>>), Edge("ad", "A", "D", 1, <<>>) }

GraphNodes == {"A", "B", "C"}

GraphQueries == {<<"A", "C">>, <<"A", "B">>, <<"C", "B">>, <<"A", "A">>, <<"A", "D">>}

GraphInputs ==
    { GraphData(<<"A", "B">>, <<>>),
      GraphData(Nodes3, <<>>),
      GraphData(Nodes3, <<Edge("bc", "B", "C", 1, <<>>)>>),
      GraphData(<<"A", "B", "A">>, <<>>),
      GraphData(<<"A", "B">>, <<Edge("bc", "B", "C", 1, <<>>)>>),
      GraphData(Nodes3, <<Edge("bc", "B", "C", 1, <<>>), Edge("bc", "A", "B", 1, <<>>)>>) }

GraphCall(op, in, ok, path, hit) ==
    [op |-> op, in |-> in, ok |-> ok, path |-> path, hit |-> hit]

\* NewGraph ran on the input
GraphInitWith(r) ==
    /\ pc = IF r.ok THEN "graph" ELSE "graph-error"
    /\ graph = IF r.ok THEN r.g ELSE EmptyGraph

GraphInit ==
    /\ input \in GraphInputs
    /\ GraphInitWith(NewGraph(input))
    /\ services = <<>>
    /\ curTime = 0
    /\ nrows = 0
    /\ lastStamp = 0
    /\ minMAs = <<>>
    /\ moves = <<>>
    /\ result = NoResult
    /\ kin = NoCall
    /\ gcall = NoCall

GraphCallWith(op, in, r, path, hit) ==
    /\ pc = "graph"
    /\ graph' = r.g
    /\ gcall' = GraphCall(op, in, r.ok, path, hit)
    /\ UNCHANGED <<input, pc, services, curTime, nrows, lastStamp, minMAs, moves,
                   result, kin>>

CallAddNode == \E n \in GraphNodes : GraphCallWith("AddNode", n, AddNode(graph, n), NoPath, FALSE)

CallAddEdge == \E e \in GraphEdges : GraphCallWith("AddEdge", e, AddEdge(graph, e), NoPath, FALSE)

CallGetShortestPathWith(q, r) == GraphCallWith("GetShortestPath", q, r, r.path, r.hit)

CallGetShortestPath ==
    \E q \in GraphQueries :
        CallGetShortestPathWith(q, GetShortestPathCached(graph, q[1], q[2]))

GraphNext == CallAddNode \/ CallAddEdge \/ CallGetShortestPath

GraphSpec == GraphInit /\ [][GraphNext]_vars

\* ids occur once and the endpoints of every edge are nodes
Distinct(seq) == \A i, j \in 1..Len(seq) : seq[i] = seq[j] => i = j
EdgeIDs(es) == [k \in 1..Len(es) |-> es[k].ID]
SeqSet(seq) == {seq[k] : k \in 1..Len(seq)}

WellFormed(nodes, edges) ==
    /\ Distinct(nodes)
    /\ Distinct(EdgeIDs(edges))
    /\ \A k \in 1..Len(edges) : edges[k].U \in SeqSet(nodes) /\ edges[k].V \in SeqSet(nodes)

\* what a call of AddNode or AddEdge is to do to graph g
AddNodeEffect(g, c, after) ==
    /\ c.ok <=> c.in \notin SeqSet(g.nodes)
    /\ c.ok => (after.nodes = Append(g.nodes, c.in) /\ after.edges = g.edges)
    /\ ~c.ok => after = g

AddEdgeEffect(g, c, after) ==
    /\ c.ok <=> /\ c.in.ID \notin SeqSet(EdgeIDs(g.edges))
                /\ c.in.U \in SeqSet(g.nodes)
                /\ c.in.V \in SeqSet(g.nodes)
    /\ c.ok => (after.edges = Append(g.edges, c.in) /\ after.nodes = g.nodes)
    /\ ~c.ok => after = g

\* C25: NewGraph accepts exactly the data whose node ids and edge ids are
\* unique and whose edges join nodes of the data; AddNode fails exactly for an
\* id present and AddEdge exactly for an edge id present or an endpoint
\* absent; a failed call leaves the graph as it was, a successful one appends;
\* every graph has unique node ids, unique edge ids and no dangling edge
GraphRejectsInvalid ==
    /\ [](/\ NewGraph(input).ok <=> WellFormed(input.Nodes, input.Edges)
          /\ pc = "graph" => WellFormed(graph.nodes, graph.edges))
    /\ [][/\ gcall'.op = "AddNode" => AddNodeEffect(graph, gcall', graph')
          /\ gcall'.op = "AddEdge" => AddEdgeEffect(graph, gcall', graph')]_vars

\* AddEdge refused an edge whose id the graph has, after a path was cached
GraphRejectsInvalidWitness ==
    /\ gcall.op = "AddEdge"
    /\ ~gcall.ok
    /\ gcall.in.ID \in SeqSet(EdgeIDs(graph.edges))
    /\ gcall.in.U \in SeqSet(graph.nodes)
    /\ gcall.in.V \in SeqSet(graph.nodes)
    /\ graph.pathCache /= {}

\* the answer of call c is the one computed from graph g as it is
SamePath(c, fresh) ==
    /\ c.ok = fresh.ok
    /\ c.ok => (c.path.Route = fresh.Route /\ c.path.Length = fresh.Length)

\* C26: GetShortestPath answers with the path that the tables computed from
\* the graph as it is at the call give, never with one memoized before a
\* later AddNode or AddEdge
CacheCoherent ==
    gcall.op = "GetShortestPath"
        => SamePath(gcall, GetShortestPath(computeShortestPaths(graph),
                                           gcall.in[1], gcall.in[2]))

\* the least total length of a directed path from u, per node, over paths of
\* at most n edges more than those D accounts for
BestInto(es, D, x) ==
    LET c == {D[x]} \cup {FAdd(D[es[k].U], es[k].Length) :
                            k \in {n \in 1..Len(es) : es[n].V = x}}
    IN  CHOOSE m \in c : \A y \in c : m <= y

RECURSIVE MinDistIter(_, _, _)
MinDistIter(es, D, n) ==
    IF n = 0 THEN D
    ELSE MinDistIter(es, [x \in DOMAIN D |-> BestInto(es, D, x)], n - 1)

MinDist(g, u, v) ==
    MinDistIter(g.edges, [x \in NodeSet(g) |-> IF x = u THEN 0 ELSE PosInf],
                Len(g.nodes))[v]

\* route leads from start to end along edges of g
IsRoute(g, route, start, end) ==
    /\ Len(route) >= 2
    /\ route[1] = start
    /\ route[Len(route)] = end
    /\ \A k \in 1..(Len(route) - 1) :
            \E n \in 1..Len(g.edges) :
                g.edges[n].U = route[k] /\ g.edges[n].V = route[k + 1]

PathExists(g, start, end) ==
    /\ start \in NodeSet(g)
    /\ end \in ReachFrom(g.edges, {start})

ShortestAnswer(g, c, start, end) ==
    IF start = end
    THEN c.ok /\ c.path.Route = <<start>> /\ c.path.Length = 0
    ELSE /\ c.ok <=> PathExists(g, start, end)
         /\ c.ok => /\ IsRoute(g, c.path.Route, start, end)
                    /\ c.path.Length = MinDist(g, start, end)

\* C27: a GetShortestPath that computes its answer fails iff no directed path
\* exists and otherwise returns a route from start to end along edges and the
\* least total length of a directed path; for start = end the path of start
\* alone with length 0
ShortestPathCorrect ==
    (gcall.op = "GetShortestPath" /\ ~gcall.hit)
        => ShortestAnswer(graph, gcall, gcall.in[1], gcall.in[2])

====
